---- MODULE Spec2Model ----
(***************************************************************************)
(* ClickUp reminder bot: task fetch and classification                     *)
(* (clickup_fetcher.py), message composition (gpt_generator.py), Slack     *)
(* delivery (slack_sender.py) and the dispatch loop (main.py).             *)
(*                                                                         *)
(* Text is a sequence of tokens.  Everything the code compares, searches   *)
(* or parses (user names, Slack ids, mentions, task names, digits) is      *)
(* spelled one character per token; the fixed wording of a prompt or of a  *)
(* fallback line is kept in larger tokens.  Emoji are written as Slack     *)
(* short codes (":bug:") because the module is ASCII.  String              *)
(* concatenation and f-string interpolation are \o.                        *)
(***************************************************************************)
EXTENDS Integers, Sequences, FiniteSets, TLC

VARIABLES
    pc,                   \* position of run_bot
    weekday,              \* run_bot: today = datetime.now().weekday()
    env,                  \* names of the environment variables that are set
    config_file,          \* clickup_config.json on disk
    mapping_file,         \* user_mapping.json on disk
    enabled_lists,        \* fetch_tasks: enabled_lists
    li,                   \* fetch_tasks: number of lists processed so far
    tasks,                \* fetch_tasks: all_tasks / run_bot: tasks
    i,                    \* run_bot: enumerate index of the task in hand
    prepared,             \* generate_message: user_mentions, is_ceo_task, prompt
    gen,                  \* outcome of the backend call of the task in hand
    message,              \* run_bot: message
    successful_messages,  \* run_bot counter
    failed_messages,      \* run_bot counter
    summary,              \* the summary line of run_bot, once logged
    sink,                 \* texts the Slack channel accepted, in order
    events,               \* external effects of the run, in order
    responses,            \* what each list's GET answered, in order
    edits,                \* external edits of user_mapping.json so far
    mapping_at_start,     \* user_mapping.json as it was when the run began
    call,                 \* function under check and its arguments
    ret                   \* what that function returned

vars == <<pc, weekday, env, config_file, mapping_file, enabled_lists, li, tasks, i,
          prepared, gen, message,
          successful_messages, failed_messages, summary, sink, events,
          responses, edits, mapping_at_start, call, ret>>

---------------------------------------------------------------------------
(* Text helpers                                                            *)

Digits == <<"0", "1", "2", "3", "4", "5", "6", "7", "8", "9">>

\* str(n) / f"{n}" of a non-negative int
RECURSIVE IntToStr(_)
IntToStr(n) ==
    IF n < 10 THEN <<Digits[n + 1]>>
    ELSE IntToStr(n \div 10) \o <<Digits[(n % 10) + 1]>>

IsDigits(s) == Len(s) > 0 /\ \A k \in 1..Len(s) : \E d \in 1..10 : Digits[d] = s[k]

\* int(s) of a string of decimal digits
RECURSIVE StrToInt(_)
StrToInt(s) ==
    IF Len(s) = 0 THEN 0
    ELSE 10 * StrToInt(SubSeq(s, 1, Len(s) - 1))
         + ((CHOOSE d \in 1..10 : Digits[d] = s[Len(s)]) - 1)

UpperCase == <<"A", "B", "C", "D", "E", "F", "G", "H", "I", "J", "K", "L", "M",
               "N", "O", "P", "Q", "R", "S", "T", "U", "V", "W", "X", "Y", "Z">>
LowerCase == <<"a", "b", "c", "d", "e", "f", "g", "h", "i", "j", "k", "l", "m",
               "n", "o", "p", "q", "r", "s", "t", "u", "v", "w", "x", "y", "z">>

\* str.lower()
lower(s) ==
    [k \in 1..Len(s) |->
        IF \E u \in 1..26 : UpperCase[u] = s[k]
        THEN LowerCase[CHOOSE u \in 1..26 : UpperCase[u] = s[k]]
        ELSE s[k]]

\* word in s
Contains(s, word) ==
    \E k \in 1..(Len(s) - Len(word) + 1) : SubSeq(s, k, k + Len(word) - 1) = word

\* s.startswith(prefix)
StartsWith(s, prefix) ==
    Len(s) >= Len(prefix) /\ SubSeq(s, 1, Len(prefix)) = prefix

IsSpace(c) == c \in {" ", "\n", "\t"}

\* str.strip()
RECURSIVE strip(_)
strip(s) ==
    IF Len(s) = 0 THEN s
    ELSE IF IsSpace(s[1]) THEN strip(Tail(s))
    ELSE IF IsSpace(s[Len(s)]) THEN strip(SubSeq(s, 1, Len(s) - 1))
    ELSE s

\* sep.join(parts)
RECURSIVE Join(_, _)
Join(parts, sep) ==
    IF Len(parts) = 0 THEN <<>>
    ELSE IF Len(parts) = 1 THEN parts[1]
    ELSE parts[1] \o sep \o Join(Tail(parts), sep)

\* dict.get(key, default)
Get(d, key, default) == IF key \in DOMAIN d THEN d[key] ELSE default

\* Python values of the assignees parameter: None, a list, a single str
PyNone == [t |-> "none"]
PyList(s) == [t |-> "list", v |-> s]
PyStr(s) == [t |-> "str", v |-> s]
Falsy(a) == a.t = "none" \/ Len(a.v) = 0

---------------------------------------------------------------------------
(* Name mapper (gpt_generator.py)                                          *)

AtChannel == <<"@", "c", "h", "a", "n", "n", "e", "l">>
AtHere == <<"@", "h", "e", "r", "e">>
everyone == <<"e", "v", "e", "r", "y", "o", "n", "e">>

\* the configuration load_user_mappings returns when it cannot read the file
DefaultUserConfig ==
    [user_mappings |-> <<>>,
     default_mention |-> AtChannel,
     fallback_behavior |-> "use_clickup_name"]

\* file: [exists, valid, config]: valid = json.load succeeds
load_user_mappings(file) ==
    IF file.exists /\ file.valid THEN file.config ELSE DefaultUserConfig

\* a resolver that knows one fallback only: the ClickUp name
get_slack_username_name_only(clickup_user, file) ==
    IF clickup_user = <<>> \/ clickup_user = everyone THEN AtChannel
    ELSE LET user_mappings == Get(load_user_mappings(file), "user_mappings", <<>>)
         IN  IF clickup_user \in DOMAIN user_mappings
             THEN IF StartsWith(user_mappings[clickup_user], <<"U">>)
                  THEN <<"<", "@">> \o user_mappings[clickup_user] \o <<">">>
                  ELSE <<"@">> \o user_mappings[clickup_user]
             ELSE clickup_user

get_slack_username(clickup_user, file) ==
    IF clickup_user = <<>> \/ clickup_user = everyone THEN AtChannel
    ELSE
        LET config == load_user_mappings(file)
            user_mappings == Get(config, "user_mappings", <<>>)
            fallback_behavior == Get(config, "fallback_behavior", "use_clickup_name")
            default_mention == Get(config, "default_mention", AtChannel)
        IN  IF clickup_user \in DOMAIN user_mappings
            THEN LET slack_user_id == user_mappings[clickup_user]
                 IN  IF StartsWith(slack_user_id, <<"U">>)
                     THEN <<"<", "@">> \o slack_user_id \o <<">">>
                     ELSE <<"@">> \o slack_user_id
            ELSE IF fallback_behavior = "use_clickup_name" THEN clickup_user
            ELSE IF fallback_behavior = "use_default" THEN default_mention
            ELSE AtChannel

\* the loop without its duplicate test
CollectMentions_keep_all(assignees, file, mentions) ==
    mentions \o [k \in 1..Len(assignees) |-> get_slack_username(assignees[k], file)]

\* the loop of get_slack_usernames: resolve each, keep the first occurrence
RECURSIVE CollectMentions(_, _, _)
CollectMentions(assignees, file, mentions) ==
    IF Len(assignees) = 0 THEN mentions
    ELSE LET mention == get_slack_username(Head(assignees), file)
         IN  CollectMentions(Tail(assignees), file,
                 IF \E k \in 1..Len(mentions) : mentions[k] = mention
                 THEN mentions
                 ELSE Append(mentions, mention))

\* a join with commas only
JoinMentions_commas(mentions) == Join(mentions, <<", ">>)

JoinMentions(mentions) ==
    IF Len(mentions) = 1 THEN mentions[1]
    ELSE IF Len(mentions) = 2 THEN mentions[1] \o <<" and ">> \o mentions[2]
    ELSE Join(SubSeq(mentions, 1, Len(mentions) - 1), <<", ">>)
         \o <<", and ">> \o mentions[Len(mentions)]

get_slack_usernames(assignees, file) ==
    IF Falsy(assignees) THEN AtChannel
    ELSE IF assignees.t = "str" THEN get_slack_username(assignees.v, file)
    ELSE IF assignees.t = "list"
    THEN JoinMentions(CollectMentions(assignees.v, file, <<>>))
    ELSE AtChannel

---------------------------------------------------------------------------
(* Task classifier (clickup_fetcher.py, fetch_tasks_from_list)             *)

MsPerSecond == 1000
MsPerHour == 60 * 60 * MsPerSecond
MsPerDay == 24 * MsPerHour
CompletedWindowHours == 24

\* A ClickUp timestamp field (due_date, date_closed): absent, a value that
\* int() or datetime.fromtimestamp reject with ValueError or TypeError (no
\* number, a year outside 1..9999), digits beyond the platform's time range,
\* which datetime.fromtimestamp rejects with OSError or OverflowError, or
\* epoch milliseconds.
NoTime == [kind |-> "none"]
BadTime == [kind |-> "bad"]
HugeTime == [kind |-> "huge"]
Ms(v) == [kind |-> "ms", v |-> v]
Truthy(t) == t.kind # "none"

\* datetime.fromtimestamp(int(ms) / 1000).date(), as a day number.  Local
\* time is taken with no offset from the epoch's zone.
DateOf(ms) == ms \div MsPerDay

Row(name, task_id, assignees, status, list_name, list_type) ==
    [task_name |-> name, task_id |-> task_id, assignees |-> assignees,
     status |-> status, list_name |-> list_name, list_type |-> list_type]

\* the usernames of the assignees that have one
assignee_names(task) ==
    LET named == SelectSeq(task.assignees, LAMBDA a : Len(a.username) > 0)
    IN  [k \in 1..Len(named) |-> named[k].username]

\* the categorisation without its no_due_date rule
ClassifyTask_no_due_date_skipped(task, list_name, list_type, now) ==
    IF Len(assignee_names(task)) = 0
    THEN <<Row(task.name, task.id, <<>>, <<"unassigned">>, list_name, list_type)>>
    ELSE <<>>

\* the categorisation with a completion window that excludes its boundary
ClassifyTask_strict_window(task, list_name, list_type, now) ==
    IF Len(assignee_names(task)) > 0 /\ task.status = "complete"
       /\ task.date_closed.kind = "ms"
       /\ task.date_closed.v > now - CompletedWindowHours * MsPerHour
    THEN <<Row(task.name, task.id, assignee_names(task), <<"completed">>,
               list_name, list_type)>>
    ELSE <<>>

\* the categorisation with the due date looked at before the completion
ClassifyTask_due_first(task, list_name, list_type, now) ==
    IF Len(assignee_names(task)) = 0
    THEN <<Row(task.name, task.id, <<>>, <<"unassigned">>, list_name, list_type)>>
    ELSE IF task.due_date.kind = "ms" /\ DateOf(task.due_date.v) = DateOf(now)
    THEN <<Row(task.name, task.id, assignee_names(task), <<"due_today">>,
               list_name, list_type)>>
    ELSE IF task.status = "complete" /\ task.date_closed.kind = "ms"
            /\ task.date_closed.v >= now - CompletedWindowHours * MsPerHour
    THEN <<Row(task.name, task.id, assignee_names(task), <<"completed">>,
               list_name, list_type)>>
    ELSE <<>>

\* the categorisation with the completed branch tried before the assignee test
ClassifyTask_complete_first(task, list_name, list_type, now) ==
    IF task.status = "complete"
    THEN IF task.date_closed.kind = "ms"
            /\ task.date_closed.v >= now - CompletedWindowHours * MsPerHour
         THEN <<Row(task.name, task.id, assignee_names(task), <<"completed">>,
                    list_name, list_type)>>
         ELSE <<>>
    ELSE IF Len(assignee_names(task)) = 0
    THEN <<Row(task.name, task.id, <<>>, <<"unassigned">>, list_name, list_type)>>
    ELSE <<>>

\* One pass of the categorisation loop: the rows appended to result for one
\* raw task (one row or none).
ClassifyTask(task, list_name, list_type, now) ==
    LET today == DateOf(now)
        twenty_four_hours_ago == now - CompletedWindowHours * MsPerHour
        users == assignee_names(task)
        due == task.due_date
        date_closed == task.date_closed
    IN  IF Len(users) = 0
        THEN <<Row(task.name, task.id, <<>>, <<"unassigned">>, list_name, list_type)>>
        ELSE IF ~Truthy(due) /\ task.status # "complete"
        THEN <<Row(task.name, task.id, users, <<"no_due_date">>, list_name, list_type)>>
        ELSE IF task.status = "complete"
        THEN IF Truthy(date_closed)
             THEN IF date_closed.kind # "ms" THEN <<>>
                  ELSE IF date_closed.v >= twenty_four_hours_ago
                  THEN <<Row(task.name, task.id, users, <<"completed">>,
                             list_name, list_type)>>
                  ELSE <<>>
             ELSE <<>>
        ELSE IF Truthy(due)
        THEN IF due.kind # "ms" THEN <<>>
             ELSE LET due_date == DateOf(due.v)
                  IN  IF due_date = today
                      THEN <<Row(task.name, task.id, users, <<"due_today">>,
                                 list_name, list_type)>>
                      ELSE IF due_date < today
                      THEN LET days_overdue == today - due_date
                           IN  <<Row(task.name, task.id, users,
                                     <<"overdue_">> \o IntToStr(days_overdue),
                                     list_name, list_type)>>
                      ELSE <<>>
        ELSE <<>>

\* The pass of the loop over this task ends in an exception that
\* except (ValueError, TypeError) does not catch: the timestamp converted in
\* the branch taken is beyond the platform's range.
ClassifyRaises(task) ==
    /\ Len(assignee_names(task)) > 0
    /\ IF task.status = "complete" THEN task.date_closed.kind = "huge"
       ELSE task.due_date.kind = "huge"

\* the whole loop over the tasks of one response
RECURSIVE ClassifyAll(_, _, _, _)
ClassifyAll(raw, list_name, list_type, now) ==
    IF Len(raw) = 0 THEN <<>>
    ELSE ClassifyTask(Head(raw), list_name, list_type, now)
         \o ClassifyAll(Tail(raw), list_name, list_type, now)

---------------------------------------------------------------------------
(* Message composer (gpt_generator.py)                                      *)

ceo_user_id == <<"U", "0", "3", "M", "N", "P", "6", "K", "B", "Q", "C">>

\* list[k] with a Python index (a negative k counts from the end)
PyIndex(list, k) == IF k >= 0 THEN list[k + 1] ELSE list[Len(list) + k + 1]

Min(a, b) == IF a <= b THEN a ELSE b

\* the keyword lists of get_fallback_message, in the order they are tried
TaskTypeWords ==
    <<[type |-> "bug",
       words |-> {<<"b", "u", "g">>,
                  <<"f", "i", "x">>,
                  <<"e", "r", "r", "o", "r">>,
                  <<"i", "s", "s", "u", "e">>,
                  <<"b", "r", "o", "k", "e", "n">>}],
      [type |-> "test",
       words |-> {<<"t", "e", "s", "t">>,
                  <<"t", "e", "s", "t", "i", "n", "g">>,
                  <<"q", "a">>,
                  <<"q", "u", "a", "l", "i", "t", "y">>}],
      [type |-> "design",
       words |-> {<<"d", "e", "s", "i", "g", "n">>,
                  <<"u", "i">>,
                  <<"u", "x">>,
                  <<"i", "n", "t", "e", "r", "f", "a", "c", "e">>,
                  <<"m", "o", "c", "k", "u", "p">>}],
      [type |-> "api",
       words |-> {<<"a", "p", "i">>,
                  <<"e", "n", "d", "p", "o", "i", "n", "t">>,
                  <<"s", "e", "r", "v", "i", "c", "e">>,
                  <<"b", "a", "c", "k", "e", "n", "d">>}],
      [type |-> "database",
       words |-> {<<"d", "a", "t", "a", "b", "a", "s", "e">>,
                  <<"d", "b">>,
                  <<"q", "u", "e", "r", "y">>,
                  <<"s", "q", "l">>}],
      [type |-> "deploy",
       words |-> {<<"d", "e", "p", "l", "o", "y">>,
                  <<"r", "e", "l", "e", "a", "s", "e">>,
                  <<"p", "r", "o", "d", "u", "c", "t", "i", "o", "n">>,
                  <<"l", "a", "u", "n", "c", "h">>}],
      [type |-> "docs",
       words |-> {<<"d", "o", "c", "u", "m", "e", "n", "t">>,
                  <<"d", "o", "c", "s">>,
                  <<"r", "e", "a", "d", "m", "e">>,
                  <<"g", "u", "i", "d", "e">>}],
      [type |-> "meeting",
       words |-> {<<"m", "e", "e", "t", "i", "n", "g">>,
                  <<"c", "a", "l", "l">>,
                  <<"d", "i", "s", "c", "u", "s", "s">>,
                  <<"r", "e", "v", "i", "e", "w">>}]>>

\* a chain in which the last matching keyword list wins
FirstTaskType_last_match(task_lower, k) ==
    LET hits == {n \in k..Len(TaskTypeWords) :
                     \E word \in TaskTypeWords[n].words : Contains(task_lower, word)}
    IN  IF hits = {} THEN "general"
        ELSE TaskTypeWords[CHOOSE n \in hits : \A m \in hits : m <= n].type

\* the if/elif chain over the keyword lists: the first list with a keyword
\* in the lower-cased task name
RECURSIVE FirstTaskType(_, _)
FirstTaskType(task_lower, k) ==
    IF k > Len(TaskTypeWords) THEN "general"
    ELSE IF \E word \in TaskTypeWords[k].words : Contains(task_lower, word)
    THEN TaskTypeWords[k].type
    ELSE FirstTaskType(task_lower, k + 1)

task_type_of(task_name) == FirstTaskType(lower(task_name), 1)

contextual_messages(user_mentions) ==
    <<"completed">> :>
        [bug |-> <<":bug: ">> \o user_mentions \o <<" fixed that bug! Nice work!">>,
         test |-> <<":white_check_mark: ">> \o user_mentions \o <<" tested it! All good!">>,
         design |-> <<":art: ">> \o user_mentions \o <<" made it look great!">>,
         api |-> <<":electric_plug: ">> \o user_mentions \o <<" connected it! Works now!">>,
         database |-> <<":floppy_disk: ">> \o user_mentions \o <<" organized the data! Clean!">>,
         deploy |-> <<":rocket: ">> \o user_mentions \o <<" put it live! Success!">>,
         docs |-> <<":books: ">> \o user_mentions \o <<" wrote it down! Clear!">>,
         meeting |-> <<":handshake: ">> \o user_mentions \o <<" had the meeting! Done!">>,
         general |-> <<":tada: Great job ">> \o user_mentions \o <<"! Task done!">>]
    @@ <<"due_today">> :>
        [bug |-> <<":bug: Hey ">> \o user_mentions \o <<", fix that bug today!">>,
         test |-> <<":test_tube: Hey ">> \o user_mentions \o <<", test it today!">>,
         design |-> <<":art: Hey ">> \o user_mentions \o <<", make it pretty today!">>,
         api |-> <<":electric_plug: Hey ">> \o user_mentions \o <<", connect it today!">>,
         database |-> <<":floppy_disk: Hey ">> \o user_mentions \o <<", organize data today!">>,
         deploy |-> <<":rocket: Hey ">> \o user_mentions \o <<", put it live today!">>,
         docs |-> <<":books: Hey ">> \o user_mentions \o <<", write it today!">>,
         meeting |-> <<":handshake: Hey ">> \o user_mentions \o <<", meeting today!">>,
         general |-> <<":alarm_clock: Hey ">> \o user_mentions \o <<", task due today!">>]
    @@ <<"overdue">> :>
        [bug |-> <<":bug: ">> \o user_mentions \o <<", that bug is still there!">>,
         test |-> <<":test_tube: ">> \o user_mentions \o <<", still need to test it!">>,
         design |-> <<":art: ">> \o user_mentions \o <<", still need to design it!">>,
         api |-> <<":electric_plug: ">> \o user_mentions \o <<", still need to connect it!">>,
         database |-> <<":floppy_disk: ">> \o user_mentions \o <<", data still messy!">>,
         deploy |-> <<":rocket: ">> \o user_mentions \o <<", still need to put it live!">>,
         docs |-> <<":books: ">> \o user_mentions \o <<", still need to write it!">>,
         meeting |-> <<":handshake: ">> \o user_mentions \o <<", still need that meeting!">>,
         general |-> <<":rotating_light: ">> \o user_mentions \o <<", task is late!">>]
    @@ <<"unassigned">> :>
        [bug |-> <<":bug: Who wants to fix this bug?">>,
         test |-> <<":test_tube: Who wants to test this?">>,
         design |-> <<":art: Who wants to design this?">>,
         api |-> <<":electric_plug: Who wants to connect this?">>,
         database |-> <<":floppy_disk: Who wants to organize data?">>,
         deploy |-> <<":rocket: Who wants to put this live?">>,
         docs |-> <<":books: Who wants to write this?">>,
         meeting |-> <<":handshake: Who wants to join this meeting?">>,
         general |-> <<":shrug: Who wants this task?">>]
    @@ <<"no_due_date">> :>
        [bug |-> <<":bug: ">> \o user_mentions \o <<", when will you fix this bug?">>,
         test |-> <<":test_tube: ">> \o user_mentions \o <<", when will you test this?">>,
         design |-> <<":art: ">> \o user_mentions \o <<", when will you design this?">>,
         api |-> <<":electric_plug: ">> \o user_mentions \o <<", when will you connect this?">>,
         database |-> <<":floppy_disk: ">> \o user_mentions \o <<", when will you organize this?">>,
         deploy |-> <<":rocket: ">> \o user_mentions \o <<", when will you put this live?">>,
         docs |-> <<":books: ">> \o user_mentions \o <<", when will you write this?">>,
         meeting |-> <<":handshake: ">> \o user_mentions \o <<", when is this meeting?">>,
         general |-> <<":date: ">> \o user_mentions \o <<", when is this due?">>]

\* the fallback table read without the task type detection
get_fallback_message_general(task_name, assignees, status, file) ==
    LET user_mentions == get_slack_usernames(assignees, file)
        by_status == Get(contextual_messages(user_mentions), status, <<>>)
    IN  Get(by_status, "general", <<"Task update for ">> \o user_mentions)

get_fallback_message(task_name, assignees, status, file) ==
    LET user_mentions == get_slack_usernames(assignees, file)
        task_type == task_type_of(task_name)
        by_status == Get(contextual_messages(user_mentions), status, <<>>)
    IN  Get(by_status, task_type, <<"Task update for ">> \o user_mentions)

ceo_messages(user_mentions, days_overdue) ==
    <<<<":smile: ">> \o user_mentions \o <<", even the best boss needs a little nudge sometimes! ">>
            \o IntToStr(days_overdue) \o <<" days and counting!">>,
      <<":tophat: ">> \o user_mentions \o <<", your task is taking a little vacation! ">>
              \o IntToStr(days_overdue) \o <<" days of fun!">>,
      <<":crown: ">> \o user_mentions \o <<", even kings take their time! ">>
              \o IntToStr(days_overdue) \o <<" days of royal delay!">>,
      <<":star2: ">> \o user_mentions \o <<", your task is aging like fine wine! ">>
              \o IntToStr(days_overdue) \o <<" days of perfection!">>,
      <<":rocket: ">> \o user_mentions \o <<", slow and steady wins the race! ">>
              \o IntToStr(days_overdue) \o <<" days of careful thinking!">>>>

\* the privileged fallback with the ladder of everybody else above 2 days
get_ceo_overdue_fallback_escalating(user_mentions, days_overdue) ==
    IF days_overdue <= 2
    THEN PyIndex(ceo_messages(user_mentions, days_overdue), days_overdue - 1)
    ELSE IF days_overdue <= 5
    THEN <<":bell: ">> \o user_mentions \o <<", ">> \o IntToStr(days_overdue)
            \o <<" days late now. Time to catch up!">>
    ELSE IF days_overdue <= 10
    THEN <<":rotating_light: ">> \o user_mentions \o <<", this is ">> \o IntToStr(days_overdue)
            \o <<" days late. Please finish it soon!">>
    ELSE <<":warning: ">> \o user_mentions \o <<", ">> \o IntToStr(days_overdue)
            \o <<" days late is too much. We need this done now!">>

get_ceo_overdue_fallback(user_mentions, days_overdue) ==
    LET messages == ceo_messages(user_mentions, days_overdue)
        message_index == Min(days_overdue - 1, Len(messages) - 1)
    IN  PyIndex(messages, message_index)

funny_messages(user_mentions, days_overdue) ==
    <<<<":smile: ">> \o user_mentions \o <<", your task is taking a little nap! ">>
            \o IntToStr(days_overdue) \o <<" days of rest!">>,
      <<":snail: ">> \o user_mentions \o <<", your task is moving like a snail! ">>
              \o IntToStr(days_overdue) \o <<" days slow!">>,
      <<":balloon: ">> \o user_mentions \o <<", your task is floating away! ">>
              \o IntToStr(days_overdue) \o <<" days in the air!">>>>

\* the fallback ladder with every step taken one day later
get_overdue_fallback_a_day_later(user_mentions, days_overdue) ==
    IF days_overdue <= 3
    THEN PyIndex(funny_messages(user_mentions, days_overdue),
                 Min(days_overdue - 1, 2))
    ELSE IF days_overdue <= 6
    THEN <<":bell: ">> \o user_mentions \o <<", ">> \o IntToStr(days_overdue)
            \o <<" days late now. Time to catch up!">>
    ELSE IF days_overdue <= 11
    THEN <<":rotating_light: ">> \o user_mentions \o <<", this is ">> \o IntToStr(days_overdue)
            \o <<" days late. Please finish it soon!">>
    ELSE <<":warning: ">> \o user_mentions \o <<", ">> \o IntToStr(days_overdue)
            \o <<" days late is too much. We need this done now!">>

get_overdue_fallback(user_mentions, days_overdue) ==
    IF days_overdue <= 2
    THEN LET messages == funny_messages(user_mentions, days_overdue)
             message_index == Min(days_overdue - 1, Len(messages) - 1)
         IN  PyIndex(messages, message_index)
    ELSE IF days_overdue <= 5
    THEN <<":bell: ">> \o user_mentions \o <<", ">> \o IntToStr(days_overdue)
            \o <<" days late now. Time to catch up!">>
    ELSE IF days_overdue <= 10
    THEN <<":rotating_light: ">> \o user_mentions \o <<", this is ">> \o IntToStr(days_overdue)
            \o <<" days late. Please finish it soon!">>
    ELSE <<":warning: ">> \o user_mentions \o <<", ">> \o IntToStr(days_overdue)
            \o <<" days late is too much. We need this done now!">>

prompts(user_mentions, task_name) ==
    <<"completed">> :> (<<"Write a short funny message (max 15 words) praising ">> \o user_mentions
            \o <<" for finishing the task '">> \o task_name
            \o <<"'. Use very simple words like a 5-year-old would understand. Make it about the task. Add 1 emoji.">>)
    @@ <<"due_today">> :> (<<"Write a short funny reminder (max 15 words) telling ">>
            \o user_mentions \o <<" that their task '">> \o task_name
            \o <<"' is due today. Use very simple words like talking to a friend. Make it about the task. Add 1 emoji.">>)
    @@ <<"overdue">> :> (<<"Write a short funny message (max 15 words) telling ">> \o user_mentions
            \o <<" that their task '">> \o task_name
            \o <<"' is late. Use very simple words, be nice and friendly. Make it about the task. Add 1 emoji.">>)
    @@ <<"unassigned">> :> (<<"Write a short funny message (max 15 words) asking who wants to take the task '">>
            \o task_name
            \o <<"'. Use very simple words like talking to friends. Make it about the task. Add 1 emoji.">>)
    @@ <<"no_due_date">> :> (<<"Write a short funny message (max 15 words) about ">>
            \o user_mentions \o <<"'s task '">> \o task_name
            \o <<"' having no due date. Use very simple words everyone knows. Make it about the task. Add 1 emoji.">>)

system_content == <<"You write short, funny messages using very simple English. Use words that a 5-year-old can understand. No big words, no jargon, no technical terms. Talk like you're chatting with friends. Be funny but keep it simple and friendly.">>

ceo_prompts(task_name, days_overdue) ==
    <<<<"Write a funny message (max 15 words) about the CEO being ">> \o IntToStr(days_overdue)
            \o <<" days late on '">> \o task_name
            \o <<"'. Be playful and respectful, like joking with your boss. Use simple words. Add 1 emoji.">>,
      <<"Write a funny message (max 15 words) about the boss taking ">> \o IntToStr(days_overdue)
              \o <<" days extra on '">> \o task_name
              \o <<"'. Be funny but respectful. Use simple words. Add 1 emoji.">>,
      <<"Write a funny message (max 15 words) about the CEO's '">> \o task_name \o <<"' being ">>
              \o IntToStr(days_overdue)
              \o <<" days overdue. Make it funny and nice. Use simple words. Add 1 emoji.">>>>

\* the prompt generate_overdue_message builds
overdue_prompt(task_name, user_mentions, days_overdue, is_ceo) ==
    IF is_ceo
    THEN PyIndex(ceo_prompts(task_name, days_overdue), Min(days_overdue - 1, 2))
    ELSE IF days_overdue <= 2
    THEN <<"Write a funny message (max 15 words) that ">> \o user_mentions \o <<"'s task '">>
            \o task_name \o <<"' is ">> \o IntToStr(days_overdue)
            \o <<" days late. Keep it light and funny. Use simple words. Add 1 emoji.">>
    ELSE IF days_overdue <= 5
    THEN <<"Write a firmer reminder (max 15 words) that ">> \o user_mentions \o <<"'s task '">>
            \o task_name \o <<"' is ">> \o IntToStr(days_overdue)
            \o <<" days late. Be more serious but not mean. Use simple words. Add 1 emoji.">>
    ELSE IF days_overdue <= 10
    THEN <<"Write a serious message (max 15 words) that ">> \o user_mentions \o <<"'s task '">>
            \o task_name \o <<"' is ">> \o IntToStr(days_overdue)
            \o <<" days late. Be firm and direct. Use simple words. Add 1 emoji.">>
    ELSE <<"Write a very serious message (max 15 words) that ">> \o user_mentions \o <<"'s task '">>
            \o task_name \o <<"' is ">> \o IntToStr(days_overdue)
            \o <<" days late. Be stern but professional. Use simple words. Add 1 emoji.">>

overdue_system_content(is_ceo) ==
    <<"You write messages using very simple English. Use words that a 5-year-old can understand. No big words, no jargon, no technical terms.">>
   
            \o (IF is_ceo THEN <<" Always be respectful and funny when talking about the CEO/boss.">> ELSE <<>>)

\* The backend's answer to one chat.completions.create call: a failure
\* (timeout, API error, a response without usable content) or a text.
GenFailed == [ok |-> FALSE, content |-> <<>>]
GenText(text) == [ok |-> TRUE, content |-> text]

\* the message without the task id
full_message_name_only(humor, task_id, task_name) ==
    humor \o <<"\n">> \o task_name

\* f"{humor}\n{task_id}: {task_name}"
full_message(humor, task_id, task_name) ==
    humor \o <<"\n">> \o task_id \o <<": ">> \o task_name

Raised == [raised |-> TRUE]

\* generate_message up to the backend call (and, for an overdue status,
\* generate_overdue_message up to its backend call): what is resolved and the
\* prompt that is sent.  file is user_mapping.json as it is read here.
prepare_message(task, api_key, file) ==
    IF ~api_key THEN Raised
    ELSE
        LET mentions == get_slack_usernames(PyList(task.assignees), file)
            is_ceo == \E k \in 1..Len(task.assignees) :
                          /\ Len(task.assignees[k]) > 0
                          /\ get_slack_username(task.assignees[k], file)
                                 = <<"<", "@">> \o ceo_user_id \o <<">">>
        IN  IF StartsWith(task.status, <<"overdue_">>)
            THEN IF ~IsDigits(Tail(task.status)) THEN Raised
                 ELSE LET days_overdue == StrToInt(Tail(task.status))
                      IN  [raised |-> FALSE, overdue |-> TRUE,
                           days_overdue |-> days_overdue,
                           user_mentions |-> mentions, is_ceo_task |-> is_ceo,
                           system |-> overdue_system_content(is_ceo),
                           prompt |-> overdue_prompt(task.task_name, mentions,
                                                     days_overdue, is_ceo)]
            ELSE IF task.status \notin DOMAIN prompts(mentions, task.task_name)
            THEN Raised
            ELSE [raised |-> FALSE, overdue |-> FALSE, days_overdue |-> 0,
                  user_mentions |-> mentions, is_ceo_task |-> is_ceo,
                  system |-> system_content,
                  prompt |-> prompts(mentions, task.task_name)[task.status]]

\* generate_message from the backend's answer on: the generated line, or the
\* fallback line when the call failed.  file is user_mapping.json as it is
\* read by the fallback.
finish_message(task, prep, answer, file) ==
    IF answer.ok
    THEN full_message(strip(answer.content), task.task_id, task.task_name)
    ELSE IF prep.overdue
    THEN full_message(
             IF prep.is_ceo_task
             THEN get_ceo_overdue_fallback(prep.user_mentions, prep.days_overdue)
             ELSE get_overdue_fallback(prep.user_mentions, prep.days_overdue),
             task.task_id, task.task_name)
    ELSE full_message(
             get_fallback_message(task.task_name, PyList(task.assignees),
                                  task.status, file),
             task.task_id, task.task_name)

\* generate_message without its except clause: a backend failure propagates
generate_message_no_fallback(task, api_key, file, answer) ==
    LET prep == prepare_message(task, api_key, file)
    IN  IF prep.raised \/ ~answer.ok THEN [raised |-> TRUE, message |-> <<>>]
        ELSE [raised |-> FALSE,
              message |-> finish_message(task, prep, answer, file)]

\* generate_message as a whole, with no edit of the mapping file in between
generate_message(task, api_key, file, answer) ==
    LET prep == prepare_message(task, api_key, file)
    IN  IF prep.raised THEN [raised |-> TRUE, message |-> <<>>]
        ELSE [raised |-> FALSE,
              message |-> finish_message(task, prep, answer, file)]


---------------------------------------------------------------------------
(* List configuration (clickup_fetcher.py)                                 *)

\* update_config_with_discovered_lists: clickup_config.json afterwards.
\* file: [exists, valid, lists]; a file that json.load rejects is left as
\* it is (the exception is logged).
RECURSIVE AppendNew(_, _, _)
AppendNew(lists, discovered_lists, existing_list_ids) ==
    IF Len(discovered_lists) = 0 THEN lists
    ELSE AppendNew(
             IF Head(discovered_lists)["id"] \notin existing_list_ids
             THEN Append(lists, Head(discovered_lists))
             ELSE lists,
             Tail(discovered_lists), existing_list_ids)

update_config_with_discovered_lists(discovered_lists, file) ==
    IF file.exists /\ ~file.valid THEN file
    ELSE LET existing == IF file.exists THEN file.lists ELSE <<>>
             existing_list_ids == {existing[k]["id"] : k \in 1..Len(existing)}
             updated == AppendNew(existing, discovered_lists, existing_list_ids)
         IN  IF Len(updated) > Len(existing)
             THEN [exists |-> TRUE, valid |-> TRUE, lists |-> updated]
             ELSE file

\* get_list_config: the configured lists, or a raise when there are none
get_list_config(file, environ) ==
    IF file.exists /\ file.valid
    THEN [raised |-> FALSE, lists |-> file.lists]
    ELSE IF "CLICKUP_LIST_ID" \in environ
    THEN [raised |-> FALSE,
          lists |-> <<[id |-> "ENV", name |-> "Default List",
                       type |-> "general", enabled |-> TRUE]>>]
    ELSE [raised |-> TRUE, lists |-> <<>>]

\* a filter that keeps every configured list
enabled_of_all(list_configs) == list_configs

\* [config for config in list_configs if config.get("enabled", True)]
enabled_of(list_configs) ==
    SelectSeq(list_configs, LAMBDA config : Get(config, "enabled", TRUE))

---------------------------------------------------------------------------
(* The world the run reads: names, files, lists, the tasks of the lists    *)

alice == <<"a", "l", "i", "c", "e">>
bob == <<"b", "o", "b">>
carol == <<"c", "a", "r", "o", "l">>
dinesh == <<"d", "i", "n", "e", "s", "h">>

FixLoginBug == <<"F", "i", "x", " ", "l", "o", "g", "i", "n", " ", "b", "u", "g">>
TestApi == <<"T", "e", "s", "t", " ", "A", "P", "I">>
BuildIntro == <<"B", "u", "i", "l", "d", " ", "i", "n", "t", "r", "o">>
PlanOffsite == <<"P", "l", "a", "n", " ", "o", "f", "f", "s", "i", "t", "e">>
ReleaseDbDocs == <<"R", "e", "l", "e", "a", "s", "e", " ", "D", "B", " ", "d", "o", "c", "s">>

\* user_mapping.json: absent, or a file with mappings and its own defaults
NoMappingFile == [exists |-> FALSE, valid |-> FALSE, config |-> <<>>]
TeamMappingFile ==
    [exists |-> TRUE, valid |-> TRUE,
     config |-> [user_mappings |-> (alice :> <<"U", "0", "1", "A">>
                                    @@ bob :> <<"b", "o", "b", "b", "y">>
                                    @@ dinesh :> ceo_user_id),
                 default_mention |-> AtHere,
                 fallback_behavior |-> "use_default"]]
MappingFiles == {NoMappingFile, TeamMappingFile}

EnvVars == {"OPENAI_API_KEY", "SLACK_BOT_TOKEN", "SLACK_CHANNEL_ID",
            "CLICKUP_API_KEY", "CLICKUP_LIST_ID", "CLICKUP_TEAM_ID"}
required_vars == {"OPENAI_API_KEY", "SLACK_BOT_TOKEN", "SLACK_CHANNEL_ID",
                  "CLICKUP_API_KEY"}

\* the environments tried: everything set, one variable unset, or one of
\* two pairs unset
UnsetChoices ==
    {{}} \cup {{v} : v \in EnvVars}
    \cup {{"CLICKUP_LIST_ID", "CLICKUP_TEAM_ID"}, {"OPENAI_API_KEY", "SLACK_BOT_TOKEN"}}
EnvChoices == {EnvVars \ unset : unset \in UnsetChoices}

Sprint1 == [id |-> "L1", name |-> "Sprint 1", type |-> "sprint"]
Bugs == [id |-> "L2", name |-> "Bugs", type |-> "bug", enabled |-> TRUE]
BugsDisabled == [id |-> "L2", name |-> "Bugs", type |-> "bug", enabled |-> FALSE]
Sprint2 == [id |-> "D1", name |-> "Eng - Sprints - Sprint 2", type |-> "sprint",
            enabled |-> TRUE, discovered |-> TRUE]
BugsDiscovered == [id |-> "L2", name |-> "Eng - Release - Bugs", type |-> "sprint",
                   enabled |-> TRUE, discovered |-> TRUE]

\* clickup_config.json: absent, unreadable, or a list of descriptors
NoConfigFile == [exists |-> FALSE, valid |-> FALSE, lists |-> <<>>]
BrokenConfigFile == [exists |-> TRUE, valid |-> FALSE, lists |-> <<>>]
ConfigOf(lists) == [exists |-> TRUE, valid |-> TRUE, lists |-> lists]
ConfigFiles ==
    {NoConfigFile, BrokenConfigFile, ConfigOf(<<Sprint1, Bugs>>),
     ConfigOf(<<Sprint1, BugsDisabled>>), ConfigOf(<<BugsDisabled>>)}

\* what discover_sprints may return (an empty list also when it failed)
DiscoveryResults == {<<>>, <<Sprint2>>, <<BugsDiscovered, Sprint2>>}

\* Monday = 0 ... Sunday = 6; the days tried are Friday, Saturday, Sunday
Weekdays == {4, 5, 6}

\* the instant of the run: day 13 after the epoch, 10:00
RunNow == 13 * MsPerDay + 10 * MsPerHour

MaxTasks == 2

\* The k-th task a list holds: an unassigned bug, a task of alice three days
\* overdue, a task of dinesh completed 25 hours ago, and so on in turn.
CatalogTask(list_id, k) ==
    LET id == <<list_id, "-">> \o IntToStr(k)
    IN  CASE k % 3 = 1 ->
                [id |-> id, name |-> FixLoginBug, status |-> "open",
                 due_date |-> NoTime, assignees |-> <<>>, date_closed |-> NoTime]
          [] k % 3 = 2 ->
                [id |-> id, name |-> TestApi, status |-> "in progress",
                 due_date |-> Ms(RunNow - 3 * MsPerDay),
                 assignees |-> <<[username |-> alice]>>, date_closed |-> NoTime]
          [] OTHER ->
                [id |-> id, name |-> PlanOffsite, status |-> "complete",
                 due_date |-> NoTime, assignees |-> <<[username |-> dinesh]>>,
                 date_closed |-> Ms(RunNow - 25 * MsPerHour)]

\* The answer of GET /list/{list_id}/task: a failure (timeout, HTTP error,
\* network error) or the first n tasks the list holds.
SourceFailed == [ok |-> FALSE, tasks |-> <<>>]
Responses(list_id) ==
    {SourceFailed}
    \cup {[ok |-> TRUE, tasks |-> [k \in 1..n |-> CatalogTask(list_id, k)]] :
              n \in 0..MaxTasks}

\* what the generation backend may answer
Answers == {GenFailed, GenText(<<" ", "You", " ", "can", " ", "do", " ", "it!", "\n">>)}

\* what chat_postMessage may do: acknowledge, answer ok = false, or raise
PostOutcomes == {"ok", "not_ok", "raises"}

---------------------------------------------------------------------------
(* The run: run_bot (main.py), fetch_tasks (clickup_fetcher.py),           *)
(* send_to_slack (slack_sender.py)                                         *)

Event(type, arg, ok) == [type |-> type, arg |-> arg, ok |-> ok]

NoSummary == [logged |-> FALSE, successful |-> 0, failed |-> 0, total |-> 0]

\* fetch_tasks_from_list: the GET, then the categorisation of its tasks
fetch_tasks_from_list(list_id, list_name, list_type, response, now) ==
    IF ~response.ok THEN [raised |-> TRUE, rows |-> <<>>]
    ELSE IF \E k \in 1..Len(response.tasks) : ClassifyRaises(response.tasks[k])
    THEN [raised |-> TRUE, rows |-> <<>>]
    ELSE [raised |-> FALSE,
          rows |-> ClassifyAll(response.tasks, list_name, list_type, now)]

Init ==
    /\ pc = "start"
    /\ weekday \in Weekdays
    /\ env \in EnvChoices
    /\ config_file \in ConfigFiles
    /\ mapping_file \in MappingFiles
    /\ mapping_at_start = mapping_file
    /\ enabled_lists = <<>>
    /\ li = 0
    /\ tasks = <<>>
    /\ i = 0
    /\ prepared = <<>>
    /\ gen = <<>>
    /\ message = <<>>
    /\ successful_messages = 0
    /\ failed_messages = 0
    /\ summary = NoSummary
    /\ sink = <<>>
    /\ events = <<>>
    /\ responses = <<>>
    /\ edits = 0
    /\ call = <<>>
    /\ ret = <<>>

\* a validation that finds nothing missing
missing_vars_unchecked(environ) == {}

\* [var for var in required_vars if not os.getenv(var)]
\* a pacing rule that also waits after the last task
delay_after_always(k, n) == TRUE

missing_vars(environ) == {var \in required_vars : var \notin environ}

\* if i < len(tasks): the delay is due after task i of n
delay_after(k, n) == k < n

\* a start that validates the environment before it looks at the weekday
Start_validates_first ==
    /\ pc = "start"
    /\ pc' = IF missing_vars(env) # {} THEN "aborted"
             ELSE IF weekday >= 5 THEN "weekend"
             ELSE "fetch_tasks"
    /\ UNCHANGED <<weekday, env, config_file, mapping_file, enabled_lists, li,
                   tasks, i, prepared, gen, message, successful_messages,
                   failed_messages, summary, sink, events, edits,
                   mapping_at_start, responses, call, ret>>

\* run_bot up to the call of fetch_tasks: the weekend gate and the check of
\* the required environment variables
Start ==
    /\ pc = "start"
    /\ pc' = IF weekday >= 5 THEN "weekend"
             ELSE IF missing_vars(env) # {} THEN "aborted"
             ELSE "fetch_tasks"
    /\ UNCHANGED <<weekday, env, config_file, mapping_file, enabled_lists, li,
                   tasks, i, prepared, gen, message, successful_messages,
                   failed_messages, summary, sink, events, edits,
                   mapping_at_start, responses, call, ret>>

\* fetch_tasks with CLICKUP_TEAM_ID set: discovery, and the update of the
\* configuration when something was discovered
Discover ==
    /\ pc = "fetch_tasks"
    /\ "CLICKUP_TEAM_ID" \in env
    /\ IF "CLICKUP_API_KEY" \notin env
       THEN pc' = "aborted" /\ UNCHANGED <<config_file, events>>
       ELSE \E discovered_lists \in DiscoveryResults :
                /\ events' = Append(events, Event("discover", "", TRUE))
                /\ config_file' =
                       IF Len(discovered_lists) > 0
                       THEN update_config_with_discovered_lists(discovered_lists,
                                                                config_file)
                       ELSE config_file
                /\ pc' = "get_list_config"
    /\ UNCHANGED <<weekday, env, mapping_file, enabled_lists, li, tasks, i,
                   prepared, gen, message, successful_messages, failed_messages,
                   summary, sink, edits, mapping_at_start, responses, call, ret>>

\* fetch_tasks: the list configuration and its enabled lists
GetListConfig ==
    /\ \/ pc = "get_list_config"
       \/ pc = "fetch_tasks" /\ "CLICKUP_TEAM_ID" \notin env
    /\ IF "CLICKUP_API_KEY" \notin env
       THEN pc' = "aborted" /\ UNCHANGED enabled_lists
       ELSE LET loaded == get_list_config(config_file, env)
            IN  IF loaded.raised
                THEN pc' = "aborted" /\ UNCHANGED enabled_lists
                ELSE /\ enabled_lists' = enabled_of(loaded.lists)
                     /\ pc' = IF Len(enabled_lists') = 0 THEN "done" ELSE "fetching"
    /\ UNCHANGED <<weekday, env, config_file, mapping_file, li, tasks, i,
                   prepared, gen, message, successful_messages, failed_messages,
                   summary, sink, events, edits, mapping_at_start, responses, call, ret>>

\* a fetch loop that gives up what it collected when one list fails
extend_all_tasks_abandon(all_tasks, fetched) ==
    IF fetched.raised THEN <<>> ELSE all_tasks \o fetched.rows

\* a collection that puts the tasks of a later list first
extend_all_tasks_front(all_tasks, fetched) ==
    IF fetched.raised THEN all_tasks ELSE fetched.rows \o all_tasks

\* the try/except around fetch_tasks_from_list: extend all_tasks, or log the
\* failure and go on with what was collected
extend_all_tasks(all_tasks, fetched) ==
    IF fetched.raised THEN all_tasks ELSE all_tasks \o fetched.rows

\* a fetch loop without its except clause: a failed list ends the run
FetchList_raises ==
    /\ pc = "fetching"
    /\ li < Len(enabled_lists)
    /\ LET list_config == enabled_lists[li + 1]
           list_id == list_config["id"]
           list_name == Get(list_config, "name", "List " \o list_id)
           list_type == Get(list_config, "type", "general")
       IN  \E response \in Responses(list_id) :
               LET fetched == fetch_tasks_from_list(list_id, list_name, list_type,
                                                    response, RunNow)
               IN  /\ events' = Append(events, Event("fetch", list_id, response.ok))
                   /\ responses' = Append(responses, response)
                   /\ tasks' = extend_all_tasks(tasks, fetched)
                   /\ li' = li + 1
                   /\ IF fetched.raised THEN pc' = "aborted" /\ i' = i
                      ELSE IF li' < Len(enabled_lists) THEN pc' = "fetching" /\ i' = i
                      ELSE IF Len(tasks') = 0 THEN pc' = "done" /\ i' = i
                      ELSE pc' = "compose" /\ i' = 1
    /\ UNCHANGED <<weekday, env, config_file, mapping_file, enabled_lists,
                   prepared, gen, message, successful_messages, failed_messages,
                   summary, sink, edits, mapping_at_start, call, ret>>

\* one pass of the loop over enabled_lists, and after the last list the
\* return to run_bot, which ends when there is no task
FetchList ==
    /\ pc = "fetching"
    /\ li < Len(enabled_lists)
    /\ LET list_config == enabled_lists[li + 1]
           list_id == list_config["id"]
           list_name == Get(list_config, "name", "List " \o list_id)
           list_type == Get(list_config, "type", "general")
       IN  \E response \in Responses(list_id) :
               LET fetched == fetch_tasks_from_list(list_id, list_name, list_type,
                                                    response, RunNow)
               IN  /\ events' = Append(events, Event("fetch", list_id, response.ok))
                   /\ responses' = Append(responses, response)
                   /\ tasks' = extend_all_tasks(tasks, fetched)
    /\ li' = li + 1
    /\ IF li' < Len(enabled_lists) THEN pc' = "fetching" /\ i' = i
       ELSE IF Len(tasks') = 0 THEN pc' = "done" /\ i' = i
       ELSE pc' = "compose" /\ i' = 1
    /\ UNCHANGED <<weekday, env, config_file, mapping_file, enabled_lists,
                   prepared, gen, message, successful_messages, failed_messages,
                   summary, sink, edits, mapping_at_start, call, ret>>

\* a loop that also waits after a failed task
TaskFailedThenSleep ==
    /\ failed_messages' = failed_messages + 1
    /\ i' = i
    /\ pc' = IF i < Len(tasks) THEN "sleep" ELSE "summary"

\* a loop whose except branch lets the exception out of run_bot
TaskFailedAborts ==
    /\ failed_messages' = failed_messages + 1
    /\ i' = i
    /\ pc' = "aborted"

\* an except branch that goes on without counting the failure
TaskFailed_uncounted ==
    /\ failed_messages' = failed_messages
    /\ IF i < Len(tasks) THEN i' = i + 1 /\ pc' = "compose"
       ELSE i' = i /\ pc' = "summary"

\* an except branch that tries the same task again
TaskFailed_retries ==
    /\ failed_messages' = failed_messages + 1
    /\ i' = i
    /\ pc' = "compose"

\* the except branch of the task loop: count the failure, go on
TaskFailed ==
    /\ failed_messages' = failed_messages + 1
    /\ IF i < Len(tasks) THEN i' = i + 1 /\ pc' = "compose"
       ELSE i' = i /\ pc' = "summary"

\* generate_message up to its backend call
Prepare ==
    /\ pc = "compose"
    /\ LET p == prepare_message(tasks[i], "OPENAI_API_KEY" \in env, mapping_file)
       IN  IF p.raised
           THEN TaskFailed /\ UNCHANGED <<prepared, events>>
           ELSE /\ prepared' = p
                /\ events' = Append(events, Event("generate", i, TRUE))
                /\ pc' = "generating"
                /\ UNCHANGED <<i, failed_messages>>
    /\ UNCHANGED <<weekday, env, config_file, mapping_file, enabled_lists, li,
                   tasks, gen, message, successful_messages, summary, sink,
                   edits, mapping_at_start, responses, call, ret>>

\* the backend answers or fails; generate_message returns the message
Generate ==
    /\ pc = "generating"
    /\ \E answer \in Answers :
           /\ gen' = answer
           /\ message' = finish_message(tasks[i], prepared, answer, mapping_file)
    /\ pc' = "send"
    /\ UNCHANGED <<weekday, env, config_file, mapping_file, enabled_lists, li,
                   tasks, i, prepared, successful_messages, failed_messages,
                   summary, sink, events, edits, mapping_at_start, responses, call, ret>>

\* send_to_slack and the rest of the try block
Send ==
    /\ pc = "send"
    /\ IF "SLACK_BOT_TOKEN" \notin env \/ "SLACK_CHANNEL_ID" \notin env
       THEN TaskFailed /\ UNCHANGED <<events, sink, successful_messages>>
       ELSE \E outcome \in PostOutcomes :
                /\ events' = Append(events, Event("post", i, outcome = "ok"))
                /\ IF outcome = "ok"
                   THEN /\ sink' = Append(sink, message)
                        /\ successful_messages' = successful_messages + 1
                        /\ pc' = IF delay_after(i, Len(tasks)) THEN "sleep"
                                 ELSE "summary"
                        /\ UNCHANGED <<i, failed_messages>>
                   ELSE TaskFailed /\ UNCHANGED <<sink, successful_messages>>
    /\ UNCHANGED <<weekday, env, config_file, mapping_file, enabled_lists, li,
                   tasks, prepared, gen, message, summary, edits,
                   mapping_at_start, responses, call, ret>>

\* time.sleep(delay_seconds), then the next pass of the loop
Sleep ==
    /\ pc = "sleep"
    /\ events' = Append(events, Event("sleep", i, TRUE))
    /\ i' = i + 1
    /\ pc' = "compose"
    /\ UNCHANGED <<weekday, env, config_file, mapping_file, enabled_lists, li,
                   tasks, prepared, gen, message, successful_messages,
                   failed_messages, summary, sink, edits, mapping_at_start,
                   responses, call, ret>>

\* a summary that also counts the sources whose fetch failed
Summary_with_source_failures ==
    /\ pc = "summary"
    /\ summary' = [logged |-> TRUE, successful |-> successful_messages,
                   failed |-> failed_messages, total |-> Len(tasks),
                   source_failures |->
                       Len(SelectSeq(responses, LAMBDA r : ~r.ok))]
    /\ pc' = "done"
    /\ UNCHANGED <<weekday, env, config_file, mapping_file, enabled_lists, li,
                   tasks, i, prepared, gen, message, successful_messages,
                   failed_messages, sink, events, edits, mapping_at_start,
                   responses, call, ret>>

\* the summary lines after the loop
Summary ==
    /\ pc = "summary"
    /\ summary' = [logged |-> TRUE, successful |-> successful_messages,
                   failed |-> failed_messages, total |-> Len(tasks)]
    /\ pc' = "done"
    /\ UNCHANGED <<weekday, env, config_file, mapping_file, enabled_lists, li,
                   tasks, i, prepared, gen, message, successful_messages,
                   failed_messages, sink, events, edits, mapping_at_start,
                   responses, call, ret>>

Next ==
    \/ Start
    \/ Discover
    \/ GetListConfig
    \/ FetchList
    \/ Prepare
    \/ Generate
    \/ Send
    \/ Sleep
    \/ Summary

Spec == Init /\ [][Next]_vars

---------------------------------------------------------------------------
(* Properties of the run                                                   *)

HasEvent(type, arg, ok) ==
    \E j \in 1..Len(events) :
        events[j].type = type /\ events[j].arg = arg /\ events[j].ok = ok

EventsOf(type) == SelectSeq(events, LAMBDA e : e.type = type)

\* the rows the lists answered so far should have given, list by list
RECURSIVE RowsOfResponses(_)
RowsOfResponses(n) ==
    IF n = 0 THEN <<>>
    ELSE RowsOfResponses(n - 1)
         \o (IF responses[n].ok
             THEN ClassifyAll(responses[n].tasks,
                              Get(enabled_lists[n], "name", "?"),
                              Get(enabled_lists[n], "type", "general"), RunNow)
             ELSE <<>>)

\* C1 as stated: in a run over n >= 1 tasks the loop issues exactly n - 1
\* pacing delays, one between every two consecutive send attempts, whether
\* the attempts succeeded or failed.
C1_DelayBetweenAllAttempts ==
    summary.logged => Len(EventsOf("sleep")) = Len(tasks) - 1

\* C1 amended: a pacing delay is issued exactly after each send that the
\* sink acknowledged and that is not the last task's; a failed attempt is
\* followed by no delay.  So a run over n tasks issues as many delays as
\* there are acknowledged sends among its first n - 1 tasks.
C1_DelayAfterEachSuccessButLast ==
    /\ \A j \in 1..Len(events) :
           events[j].type = "sleep" =>
               /\ j > 1
               /\ events[j - 1].type = "post"
               /\ events[j - 1].arg = events[j].arg
               /\ events[j - 1].ok
               /\ events[j].arg < Len(tasks)
    /\ summary.logged =>
           /\ \A k \in 1..Len(tasks) :
                  HasEvent("sleep", k, TRUE)
                      <=> (HasEvent("post", k, TRUE) /\ k < Len(tasks))
           /\ Len(EventsOf("sleep"))
                  = Cardinality({k \in 1..(Len(tasks) - 1) : HasEvent("post", k, TRUE)})

\* a finished run over three or more tasks with a failed attempt before the
\* last task and at least one delay
C1_Witness ==
    /\ summary.logged
    /\ Len(tasks) >= 3
    /\ \E k \in 1..(Len(tasks) - 1) : HasEvent("post", k, FALSE)
    /\ Len(EventsOf("sleep")) >= 1
    /\ Len(EventsOf("sleep")) < Len(tasks) - 1

\* C2: a failure while composing or sending one task is caught and counted,
\* the loop goes on with the next task (every task is still composed and
\* attempted), and the run reaches its summary.
C2_FailureIsCountedAndRunGoesOn ==
    /\ failed_messages = Len(SelectSeq(events, LAMBDA e : e.type = "post" /\ ~e.ok))
    /\ (failed_messages > 0 /\ pc # "done") => ENABLED Next
    /\ (failed_messages > 0 /\ pc = "done") => summary.logged
    /\ summary.logged =>
           \A k \in 1..Len(tasks) :
               /\ HasEvent("generate", k, TRUE)
               /\ HasEvent("post", k, TRUE) \/ HasEvent("post", k, FALSE)

\* a finished run in which a send failed and the next task was delivered
C2_Witness ==
    /\ summary.logged
    /\ \E k \in 1..(Len(tasks) - 1) :
           HasEvent("post", k, FALSE) /\ HasEvent("post", k + 1, TRUE)

\* C3: when fetching one enabled source fails, that source contributes no
\* task and the run continues: the tasks of every other enabled source are
\* still fetched, classified and dispatched.
C3_FailedSourceIsSkipped ==
    /\ Len(responses) = li
    /\ tasks = RowsOfResponses(Len(responses))
    /\ (\E n \in 1..Len(responses) : ~responses[n].ok) => pc # "aborted"
    /\ pc \in {"compose", "generating", "send", "sleep", "summary"} =>
           li = Len(enabled_lists)
    /\ summary.logged => \A k \in 1..Len(tasks) : HasEvent("generate", k, TRUE)

\* a finished run whose first source failed and whose second source gave
\* tasks, all of them delivered
C3_Witness ==
    /\ summary.logged
    /\ Len(responses) >= 2
    /\ ~responses[1].ok
    /\ responses[2].ok /\ Len(responses[2].tasks) > 0
    /\ Len(tasks) > 0
    /\ Len(sink) = Len(tasks)

---------------------------------------------------------------------------
(* The run beside an external editor of user_mapping.json                  *)

MaxEdits == 1

InitEdit ==
    /\ Init
    /\ weekday = 4
    /\ env \in {EnvVars, EnvVars \ {"CLICKUP_TEAM_ID"}}
    /\ config_file = ConfigOf(<<Sprint1, Bugs>>)

\* someone saves another user_mapping.json while the run is in progress
ExternalEdit ==
    /\ pc \notin {"start", "weekend", "aborted", "done"}
    /\ edits < MaxEdits
    /\ \E file \in MappingFiles \ {mapping_file} : mapping_file' = file
    /\ edits' = edits + 1
    /\ UNCHANGED <<pc, weekday, env, config_file, enabled_lists, li, tasks, i,
                   prepared, gen, message, successful_messages, failed_messages,
                   summary, sink, events, responses, mapping_at_start, call, ret>>

NextEdit == Next \/ ExternalEdit

SpecEdit == InitEdit /\ [][NextEdit]_vars

\* C4: the mention mapping and the list configuration are loaded once at
\* run start and not re-read during the run: every message of the run (and
\* every prompt) is composed from the values loaded at start, also when the
\* mapping file is edited while the run is in progress.
C4_MappingReadOnceAtStart ==
    /\ pc = "generating" =>
           prepared = prepare_message(tasks[i], TRUE, mapping_at_start)
    /\ pc = "send" =>
           message = finish_message(tasks[i],
                                    prepare_message(tasks[i], TRUE, mapping_at_start),
                                    gen, mapping_at_start)

---------------------------------------------------------------------------
(* The functions on their own: one call, one return                        *)

erin == <<"e", "r", "i", "n">>

\* two names mapped to one Slack id, no other key in the file
AliasMappingFile ==
    [exists |-> TRUE, valid |-> TRUE,
     config |-> [user_mappings |-> (alice :> <<"U", "0", "1", "A">>
                                    @@ bob :> <<"U", "0", "1", "A">>
                                    @@ everyone :> <<"U", "0", "9", "E">>)]]
\* a file json.load rejects
BrokenMappingFile == [exists |-> TRUE, valid |-> FALSE, config |-> <<>>]
\* a file with an unknown fallback_behavior
OddMappingFile ==
    [exists |-> TRUE, valid |-> TRUE,
     config |-> [user_mappings |-> (dinesh :> ceo_user_id),
                 default_mention |-> AtHere,
                 fallback_behavior |-> "ask"]]
ResolveFiles ==
    {NoMappingFile, TeamMappingFile, AliasMappingFile, BrokenMappingFile,
     OddMappingFile}

MaxAssignees == 3
ResolveUsers == {alice, bob, carol, dinesh, everyone}
SeqsUpTo(S, n) == UNION {[1..k -> S] : k \in 0..n}
ResolveInputs ==
    {PyNone} \cup {PyStr(u) : u \in ResolveUsers \cup {<<>>}}
    \cup {PyList(names) : names \in SeqsUpTo(ResolveUsers, MaxAssignees)}

\* the instants tried: 10:00 and 00:00 of day 20 after the epoch
Noon == 20 * MsPerDay + 10 * MsPerHour
Midnight == 20 * MsPerDay
Nows == {Noon, Midnight}

MaxDaysLate == 12

RawNames == {FixLoginBug, TestApi, BuildIntro, PlanOffsite, ReleaseDbDocs}
RawStatuses == {"open", "in progress", "complete"}
RawAssignees ==
    {<<>>,
     <<[username |-> <<>>]>>,
     <<[username |-> alice]>>,
     <<[username |-> dinesh], [username |-> bob]>>,
     <<[username |-> carol], [username |-> <<>>], [username |-> erin]>>}
RawDueDates(now) ==
    {NoTime, BadTime, HugeTime, Ms(now), Ms(DateOf(now) * MsPerDay),
     Ms(DateOf(now) * MsPerDay - 1), Ms((DateOf(now) + 1) * MsPerDay - 1),
     Ms((DateOf(now) + 1) * MsPerDay), Ms(now + MsPerDay)}
    \cup {Ms(now - d * MsPerDay) : d \in 1..MaxDaysLate}
RawClosedDates(now) ==
    {NoTime, BadTime, HugeTime, Ms(now - 23 * MsPerHour), Ms(now - 24 * MsPerHour),
     Ms(now - 24 * MsPerHour - 1), Ms(now - 25 * MsPerHour), Ms(now + MsPerHour)}
RawTasks(now) ==
    {[id |-> <<"8", "6", "a">>, name |-> name, status |-> status, due_date |-> due,
      assignees |-> assignees, date_closed |-> closed] :
         name \in RawNames, status \in RawStatuses, due \in RawDueDates(now),
         assignees \in RawAssignees, closed \in RawClosedDates(now)}

\* the rows the classifier gives for those tasks: the composer's inputs
ClassifiedRows ==
    UNION {{ClassifyTask(task, "Sprint 1", "sprint", now)[k] :
                k \in 1..Len(ClassifyTask(task, "Sprint 1", "sprint", now))} :
               now \in Nows, task \in RawTasks(Noon) \cup RawTasks(Midnight)}
ComposeAnswers == Answers \cup {GenText(<<>>)}

\* what update_config_with_discovered_lists may be handed: up to
\* MaxDiscovered descriptors as discover_sprints builds them, among them two
\* descriptors of the list D1, found under two folders
MaxDiscovered == 2
Sprint2Elsewhere == [id |-> "D1", name |-> "Eng - Release - Sprint 2", type |-> "sprint",
                     enabled |-> TRUE, discovered |-> TRUE]
DiscoveredLists == {Sprint2, BugsDiscovered, Sprint2Elsewhere}
DiscoveredSeqs == SeqsUpTo(DiscoveredLists, MaxDiscovered)

NotReturned == [done |-> FALSE]
Returned(value) == [done |-> TRUE, value |-> value]

InitFn ==
    /\ pc = "idle"
    /\ weekday = 0
    /\ env = EnvVars
    /\ config_file = NoConfigFile
    /\ mapping_file = NoMappingFile
    /\ mapping_at_start = NoMappingFile
    /\ enabled_lists = <<>>
    /\ li = 0
    /\ tasks = <<>>
    /\ i = 0
    /\ prepared = <<>>
    /\ gen = <<>>
    /\ message = <<>>
    /\ successful_messages = 0
    /\ failed_messages = 0
    /\ summary = NoSummary
    /\ sink = <<>>
    /\ events = <<>>
    /\ responses = <<>>
    /\ edits = 0
    /\ ret = NotReturned
    /\ \/ call \in {[fn |-> "get_slack_usernames", assignees |-> a, file |-> f] :
                       a \in ResolveInputs, f \in ResolveFiles}
       \/ \E now \in Nows :
              call \in {[fn |-> "classify", task |-> t, now |-> now] :
                           t \in RawTasks(now)}
       \/ call \in {[fn |-> "generate_message", task |-> t, file |-> f, answer |-> a] :
                       t \in ClassifiedRows, f \in MappingFiles, a \in ComposeAnswers}
       \/ call \in {[fn |-> "update_config_with_discovered_lists",
                      discovered_lists |-> d, file |-> f] :
                       d \in DiscoveredSeqs, f \in ConfigFiles}

RunIdle ==
    UNCHANGED <<pc, weekday, env, config_file, mapping_file, enabled_lists, li,
                tasks, i, prepared, gen, message, successful_messages,
                failed_messages, summary, sink, events, responses, edits,
                mapping_at_start, call>>

Resolve ==
    /\ call.fn = "get_slack_usernames"
    /\ ~ret.done
    /\ ret' = Returned(get_slack_usernames(call.assignees, call.file))
    /\ RunIdle

Classify ==
    /\ call.fn = "classify"
    /\ ~ret.done
    /\ ret' = [done |-> TRUE,
               raised |-> ClassifyRaises(call.task),
               value |-> ClassifyTask(call.task, "Sprint 1", "sprint", call.now)]
    /\ RunIdle

Compose ==
    /\ call.fn = "generate_message"
    /\ ~ret.done
    /\ ret' = [done |-> TRUE,
               value |-> generate_message(call.task, TRUE, call.file, call.answer),
               request |-> prepare_message(call.task, TRUE, call.file)]
    /\ RunIdle

\* update_config_with_discovered_lists, and the same call once more on the
\* file the first call left
UpdateConfig ==
    /\ call.fn = "update_config_with_discovered_lists"
    /\ ~ret.done
    /\ LET updated == update_config_with_discovered_lists(call.discovered_lists,
                                                          call.file)
       IN  ret' = [done |-> TRUE,
                   value |-> updated,
                   again |-> update_config_with_discovered_lists(
                                 call.discovered_lists, updated)]
    /\ RunIdle

NextFn == Resolve \/ Classify \/ Compose \/ UpdateConfig

SpecFn == InitFn /\ [][NextFn]_vars

---------------------------------------------------------------------------
(* Properties of the functions                                             *)

ResolveReturned == call.fn = "get_slack_usernames" /\ ret.done
ClassifyReturned == call.fn = "classify" /\ ret.done
ComposeReturned == call.fn = "generate_message" /\ ret.done

\* the second line of a message and what stands before it
TaskLine(task) == task.task_id \o <<": ">> \o task.task_name
EndsWithTaskLine(msg, task) ==
    /\ Len(msg) >= Len(TaskLine(task)) + 1
    /\ SubSeq(msg, Len(msg) - Len(TaskLine(task)), Len(msg))
           = <<"\n">> \o TaskLine(task)
HumorOf(msg, task) == SubSeq(msg, 1, Len(msg) - Len(TaskLine(task)) - 1)

IsOverdue(status) == StartsWith(status, <<"overdue_">>)
CategoryOf(status) == IF IsOverdue(status) THEN <<"overdue">> ELSE status

\* the task-type bucket each of the task names tried belongs to
ExpectedBucket ==
    FixLoginBug :> "bug" @@ TestApi :> "test" @@ BuildIntro :> "design"
    @@ PlanOffsite :> "general" @@ ReleaseDbDocs :> "database"

\* the line the fallback table holds for a category and a bucket
TemplateFor(category, bucket, task, file) ==
    contextual_messages(get_slack_usernames(PyList(task.assignees), file))
        [category][bucket]

\* C6: with an empty list or no assignees at all the resolver returns the
\* default_mention configured in the mapping file, whatever that value is.
C6_EmptyResolvesToDefaultMention ==
    (ResolveReturned /\ Falsy(call.assignees)) =>
        ret.value = Get(load_user_mappings(call.file), "default_mention", AtChannel)

C8_ComposeSurvivesBackendFailure ==
    (ComposeReturned /\ ~call.answer.ok) =>
        /\ ~ret.value.raised
        /\ EndsWithTaskLine(ret.value.message, call.task)
        /\ Len(HumorOf(ret.value.message, call.task)) > 0

C8_Witness ==
    /\ ComposeReturned
    /\ ~call.answer.ok
    /\ IsOverdue(call.task.status)
    /\ ~ret.value.raised
    /\ Len(ret.value.message) > Len(TaskLine(call.task)) + 1

\* C9: a composed message is the humor line, one line break, then
\* "{task_id}: {task_name}"; on the generated path the humor line is the
\* backend's text stripped, on the fallback path it holds no line break.
C9_HumorThenTaskLine ==
    (ComposeReturned /\ ~ret.value.raised) =>
        /\ EndsWithTaskLine(ret.value.message, call.task)
        /\ call.answer.ok =>
               /\ HumorOf(ret.value.message, call.task) = strip(call.answer.content)
               /\ ret.value.message
                      = strip(call.answer.content) \o <<"\n">> \o call.task.task_id
                            \o <<": ">> \o call.task.task_name
        /\ ~call.answer.ok =>
               ~Contains(HumorOf(ret.value.message, call.task), <<"\n">>)

C9_Witness ==
    /\ ComposeReturned
    /\ call.answer.ok
    /\ Len(call.answer.content) > Len(strip(call.answer.content))
    /\ Len(strip(call.answer.content)) > 0
    /\ IsOverdue(call.task.status)
    /\ ~ret.value.raised

\* C10: a raw task with no assignees is classified Unassigned, with an empty
\* assignee list, whatever its status, due date and closing date are.
C10_NoAssigneeIsUnassigned ==
    (ClassifyReturned /\ Len(call.task.assignees) = 0) =>
        ret.value = <<Row(call.task.name, call.task.id, <<>>, <<"unassigned">>,
                          "Sprint 1", "sprint")>>

C10_Witness ==
    /\ ClassifyReturned
    /\ Len(call.task.assignees) = 0
    /\ call.task.status = "complete"
    /\ call.task.due_date = BadTime
    /\ ret.value[1].status = <<"unassigned">>

\* an assignee counts when its record carries a username
Assigned(task) == Len(assignee_names(task)) >= 1
ClassifiedAs(status) ==
    <<Row(call.task.name, call.task.id, assignee_names(call.task), status,
          "Sprint 1", "sprint")>>
CompletedRecently(task, now) ==
    /\ task.date_closed.kind = "ms"
    /\ now - task.date_closed.v <= 24 * 60 * 60 * 1000

\* C11: every raw task with at least one assignee, no due date and a status
\* other than complete is classified NoDueDate.
C11_NoDueDate ==
    (ClassifyReturned /\ Assigned(call.task) /\ call.task.due_date = NoTime
        /\ call.task.status # "complete") =>
        /\ ~ret.raised
        /\ ret.value = ClassifiedAs(<<"no_due_date">>)

C11_Witness ==
    /\ ClassifyReturned
    /\ Len(call.task.assignees) = 3
    /\ call.task.due_date = NoTime
    /\ call.task.status = "in progress"
    /\ call.task.date_closed = BadTime
    /\ Len(ret.value) = 1
    /\ ret.value[1].status = <<"no_due_date">>
    /\ ret.value[1].assignees = <<carol, erin>>

C13_DueDateRules ==
    (ClassifyReturned /\ Assigned(call.task) /\ call.task.status # "complete"
        /\ call.task.due_date # NoTime) =>
        /\ ~ret.raised
        /\ IF call.task.due_date.kind # "ms" THEN ret.value = <<>>
           ELSE LET n == DateOf(call.now) - DateOf(call.task.due_date.v)
                IN  /\ n = 0 => ret.value = ClassifiedAs(<<"due_today">>)
                    /\ n >= 1 => ret.value
                                    = ClassifiedAs(<<"overdue_">> \o IntToStr(n))
                    /\ n < 0 => ret.value = <<>>

\* C20: the rules are tried in order and the first match wins: an assigned
\* task with status complete is Completed or gives nothing, never DueToday,
\* Overdue or NoDueDate, whatever its due date; and every raw task gives at
\* most one classified task.
C20_CompletionBeforeDueDate ==
    ClassifyReturned =>
        /\ Len(ret.value) <= 1
        /\ (Assigned(call.task) /\ call.task.status = "complete") =>
               /\ \A k \in 1..Len(ret.value) : ret.value[k].status = <<"completed">>
               /\ ~CompletedRecently(call.task, call.now) => ret.value = <<>>

C20_Witness ==
    /\ ClassifyReturned
    /\ Assigned(call.task)
    /\ call.task.status = "complete"
    /\ call.task.due_date = Ms(call.now)
    /\ call.task.date_closed = Ms(call.now - 25 * MsPerHour)
    /\ ret.value = <<>>

---------------------------------------------------------------------------
(* Properties of the run: order, last task, weekend                        *)

\* where a task came from: the position of its list among the enabled
\* lists and its place in the list's answer
SourcePosition(row) ==
    CHOOSE n \in 1..Len(enabled_lists) :
        enabled_lists[n]["id"] = row.task_id[1]
PlaceInSource(row) == StrToInt(SubSeq(row.task_id, 3, Len(row.task_id)))
ComesBefore(a, b) ==
    \/ SourcePosition(a) < SourcePosition(b)
    \/ SourcePosition(a) = SourcePosition(b) /\ PlaceInSource(a) < PlaceInSource(b)

PostEvents == EventsOf("post")
Delivered == SelectSeq(PostEvents, LAMBDA e : e.ok)

\* C14: messages reach the sink in the order the tasks were classified:
\* sources in the order of the enabled list configuration, inside a source
\* the order of its answer; the loop attempts the tasks in that order, each
\* once, and the sink holds the delivered ones in that order.
C14_SinkKeepsClassifiedOrder ==
    /\ \A k \in 1..(Len(tasks) - 1) : ComesBefore(tasks[k], tasks[k + 1])
    /\ \A j \in 1..Len(PostEvents) : PostEvents[j].arg \in 1..Len(tasks)
    /\ \A j \in 1..(Len(PostEvents) - 1) : PostEvents[j].arg < PostEvents[j + 1].arg
    /\ Len(sink) = Len(Delivered)
    /\ \A m \in 1..Len(sink) : EndsWithTaskLine(sink[m], tasks[Delivered[m].arg])

\* a finished run over the tasks of two lists, one of them not delivered
C14_Witness ==
    /\ summary.logged
    /\ Len(tasks) = 4
    /\ tasks[1].task_id[1] # tasks[4].task_id[1]
    /\ HasEvent("post", 2, FALSE)
    /\ Len(sink) = 3

\* C15: no pacing delay is issued after the last task: the loop never
\* sleeps at the last task, and the last call of a run that reaches its
\* summary is the send attempt of the last task.
C15_NoDelayAfterLastTask ==
    /\ pc = "sleep" => i < Len(tasks)
    /\ \A j \in 1..Len(events) :
           events[j].type = "sleep" => events[j].arg # Len(tasks)
    /\ pc \in {"summary", "done"} /\ Len(tasks) > 0 =>
           /\ Len(events) > 0
           /\ events[Len(events)].type = "post"
           /\ events[Len(events)].arg = Len(tasks)

\* a finished run whose every task was delivered, the last one included
C15_Witness ==
    /\ summary.logged
    /\ Len(tasks) >= 2
    /\ HasEvent("post", Len(tasks), TRUE)
    /\ Len(EventsOf("sleep")) = Len(tasks) - 1

\* C16: a run started on Saturday or Sunday exits before fetching and does
\* nothing else: no validation error, no discovery or config write, no
\* fetch, no generation, no post, no delay, no summary.
C16_WeekendRunDoesNothing ==
    (weekday >= 5 /\ pc # "start") =>
        /\ pc = "weekend"
        /\ ~ENABLED Next
        /\ events = <<>>
        /\ responses = <<>>
        /\ config_file \in ConfigFiles
        /\ enabled_lists = <<>>
        /\ tasks = <<>>
        /\ sink = <<>>
        /\ successful_messages = 0 /\ failed_messages = 0
        /\ ~summary.logged

\* a Sunday run that ended although a required variable is missing
C16_Witness ==
    /\ pc = "weekend"
    /\ weekday = 6
    /\ required_vars \ env # {}
    /\ "CLICKUP_TEAM_ID" \in env

---------------------------------------------------------------------------
(* Properties of the name mapper                                           *)

\* the call resolves one name: a string, or a list of one name
SingleName ==
    \/ call.assignees.t = "str" /\ Len(call.assignees.v) > 0
    \/ call.assignees.t = "list" /\ Len(call.assignees.v) = 1
TheName == IF call.assignees.t = "str" THEN call.assignees.v ELSE call.assignees.v[1]
MappingOf(file) == Get(load_user_mappings(file), "user_mappings", <<>>)
FallbackOf(file) == Get(load_user_mappings(file), "fallback_behavior", "use_clickup_name")
DefaultMentionOf(file) == Get(load_user_mappings(file), "default_mention", AtChannel)
\* the Slack mention of a mapped value: a user id, or a display name
MentionFor(value) ==
    IF Len(value) > 0 /\ value[1] = "U" THEN <<"<", "@">> \o value \o <<">">>
    ELSE <<"@">> \o value

\* what the mapping and the fallback policy give for one name
ByMappingAndFallback(name, file, value) ==
    /\ name \in DOMAIN MappingOf(file) => value = MentionFor(MappingOf(file)[name])
    /\ (name \notin DOMAIN MappingOf(file) /\ FallbackOf(file) = "use_clickup_name") =>
           value = name
    /\ (name \notin DOMAIN MappingOf(file) /\ FallbackOf(file) = "use_default") =>
           value = DefaultMentionOf(file)

\* C17 as stated: a single name resolves to its mapped mention when it is
\* a key of the mapping, to the bare name under fallback use_clickup_name
\* and to the configured default_mention under fallback use_default.
C17_SingleNameByMappingAndFallback ==
    (ResolveReturned /\ SingleName) =>
        ByMappingAndFallback(TheName, call.file, ret.value)

\* C17 amended: the same for every name but "everyone", which resolves to
\* the broadcast mention "@channel" whether it is mapped or not and whatever
\* the fallback is.
C17_SingleNameExceptEveryone ==
    (ResolveReturned /\ SingleName) =>
        IF TheName = everyone THEN ret.value = AtChannel
        ELSE ByMappingAndFallback(TheName, call.file, ret.value)

\* an unmapped name resolved to a default_mention other than "@channel"
C17_Witness ==
    /\ ResolveReturned
    /\ call.assignees = PyStr(carol)
    /\ call.file = TeamMappingFile
    /\ ret.value = AtHere

\* the tokens of a list of names, each resolved on its own, first
\* occurrences only
Resolved(names, file) == [k \in 1..Len(names) |-> get_slack_username(names[k], file)]
IsFirst(tokens, k) == \A j \in 1..(k - 1) : tokens[j] # tokens[k]
FirstOccurrences(tokens) ==
    LET keep == {k \in 1..Len(tokens) : IsFirst(tokens, k)}
        nth(m) == CHOOSE k \in keep : Cardinality({j \in keep : j < k}) = m - 1
    IN  [m \in 1..Cardinality(keep) |-> tokens[nth(m)]]
RECURSIVE CommasThenAnd(_)
CommasThenAnd(tokens) ==
    IF Len(tokens) = 1 THEN <<", and ">> \o tokens[1]
    ELSE <<", ">> \o Head(tokens) \o CommasThenAnd(Tail(tokens))
ListOfNames == call.assignees.t = "list" /\ Len(call.assignees.v) >= 1

\* C18: several names are joined as: one distinct mention -> itself, two ->
\* "A and B", three or more -> "A, B, and C"; [alice, bob, carol] with no
\* mappings and fallback use_clickup_name gives "alice, bob, and carol".
C18_JoinForReading ==
    (ResolveReturned /\ ListOfNames) =>
        LET tokens == FirstOccurrences(Resolved(call.assignees.v, call.file))
        IN  /\ Len(tokens) = 1 => ret.value = tokens[1]
            /\ Len(tokens) = 2 => ret.value = tokens[1] \o <<" and ">> \o tokens[2]
            /\ Len(tokens) >= 3 =>
                   ret.value = tokens[1] \o CommasThenAnd(Tail(tokens))
            /\ (call.assignees.v = <<alice, bob, carol>> /\ call.file = NoMappingFile) =>
                   ret.value = <<"a", "l", "i", "c", "e", ", ", "b", "o", "b",
                                 ", and ", "c", "a", "r", "o", "l">>

C18_Witness ==
    /\ ResolveReturned
    /\ call.assignees = PyList(<<alice, bob, carol>>)
    /\ call.file = NoMappingFile
    /\ ret.value = alice \o <<", ">> \o bob \o <<", and ">> \o carol

\* where and how often a token stands in a text
Places(text, token) ==
    {k \in 1..(Len(text) - Len(token) + 1) :
         SubSeq(text, k, k + Len(token) - 1) = token}
FirstIndex(tokens, token) == CHOOSE k \in 1..Len(tokens) :
                                 tokens[k] = token /\ IsFirst(tokens, k)
TotalLen(tokens) ==
    LET RECURSIVE Sum(_)
        Sum(k) == IF k = 0 THEN 0 ELSE Len(tokens[k]) + Sum(k - 1)
    IN  Sum(Len(tokens))

\* C19: each name is resolved on its own and duplicate mentions are
\* removed, the first occurrence kept: the result holds every distinct
\* mention exactly once, in the order of first appearance, also when two
\* different names resolve to the same mention; nothing else but the
\* separators is in it.
C19_DistinctMentionsInFirstSeenOrder ==
    (ResolveReturned /\ ListOfNames) =>
        LET tokens == Resolved(call.assignees.v, call.file)
            distinct == {tokens[k] : k \in 1..Len(tokens)}
        IN  /\ \A t \in distinct : Cardinality(Places(ret.value, t)) = 1
            /\ \A t, u \in distinct :
                   FirstIndex(tokens, t) < FirstIndex(tokens, u) =>
                       \A p \in Places(ret.value, t), q \in Places(ret.value, u) : p < q
            /\ Len(ret.value)
                   = TotalLen(FirstOccurrences(tokens)) + Cardinality(distinct) - 1

\* two names with one Slack id, another name between them
C19_Witness ==
    /\ ResolveReturned
    /\ call.assignees = PyList(<<alice, carol, bob>>)
    /\ call.file = AliasMappingFile
    /\ ret.value = <<"<", "@", "U", "0", "1", "A", ">", " and ", "c", "a", "r", "o", "l">>

---------------------------------------------------------------------------
(* The register of an overdue message                                      *)

DaysLateOf(status) == StrToInt(Tail(status))
Last(s) == s[Len(s)]

\* one of the task's assignees resolves to the mention of ceo_user_id
Privileged(task, file) ==
    \E k \in 1..Len(task.assignees) :
        /\ Len(task.assignees[k]) > 0
        /\ get_slack_username(task.assignees[k], file)
               = <<"<", "@">> \o ceo_user_id \o <<">">>

\* the register the spec gives to n days late
ExpectedRegister(n) ==
    IF n \in 1..2 THEN "light"
    ELSE IF n \in 3..5 THEN "firmer"
    ELSE IF n \in 6..10 THEN "serious"
    ELSE "stern"

\* the register a prompt asks the backend for, read off its wording
RegisterOfPrompt(prompt) ==
    IF /\ Head(prompt) = "Write a funny message (max 15 words) that "
       /\ Last(prompt) = " days late. Keep it light and funny. Use simple words. Add 1 emoji."
    THEN "light"
    ELSE IF /\ Head(prompt) = "Write a firmer reminder (max 15 words) that "
            /\ Last(prompt) = " days late. Be more serious but not mean. Use simple words. Add 1 emoji."
    THEN "firmer"
    ELSE IF /\ Head(prompt) = "Write a serious message (max 15 words) that "
            /\ Last(prompt) = " days late. Be firm and direct. Use simple words. Add 1 emoji."
    THEN "serious"
    ELSE IF /\ Head(prompt) = "Write a very serious message (max 15 words) that "
            /\ Last(prompt) = " days late. Be stern but professional. Use simple words. Add 1 emoji."
    THEN "stern"
    ELSE IF /\ Head(prompt) \in {"Write a funny message (max 15 words) about the CEO being ",
                                 "Write a funny message (max 15 words) about the boss taking ",
                                 "Write a funny message (max 15 words) about the CEO's '"}
            /\ Last(prompt) \in {"'. Be playful and respectful, like joking with your boss. Use simple words. Add 1 emoji.",
                                 "'. Be funny but respectful. Use simple words. Add 1 emoji.",
                                 " days overdue. Make it funny and nice. Use simple words. Add 1 emoji."}
    THEN "playful"
    ELSE "other"

\* the register of a fallback line, read off its wording
RegisterOfFallback(humor) ==
    IF Last(humor) \in {" days of rest!", " days slow!", " days in the air!"}
    THEN "light"
    ELSE IF Head(humor) = ":bell: " /\ Last(humor) = " days late now. Time to catch up!"
    THEN "firmer"
    ELSE IF Head(humor) = ":rotating_light: " /\ Last(humor) = " days late. Please finish it soon!"
    THEN "serious"
    ELSE IF Head(humor) = ":warning: "
            /\ Last(humor) = " days late is too much. We need this done now!"
    THEN "stern"
    ELSE IF Last(humor) \in {" days and counting!", " days of fun!", " days of royal delay!",
                             " days of perfection!", " days of careful thinking!"}
    THEN "playful"
    ELSE "other"

\* C21: for a task n days overdue none of whose assignees is the privileged
\* identity, the prompt sent to the backend and the fallback line used when
\* the backend fails are both in the register of n's bucket: light for 1-2
\* days, firmer for 3-5, serious for 6-10, stern above 10.
C21_OverdueRegisterByBucket ==
    (/\ ComposeReturned
     /\ IsOverdue(call.task.status)
     /\ ~Privileged(call.task, call.file)) =>
        LET register == ExpectedRegister(DaysLateOf(call.task.status))
        IN  /\ ~ret.request.raised
            /\ RegisterOfPrompt(ret.request.prompt) = register
            /\ ~call.answer.ok =>
                   RegisterOfFallback(HumorOf(ret.value.message, call.task)) = register

\* an unprivileged task 11 days late got the stern fallback
C21_Witness ==
    /\ ComposeReturned
    /\ call.task.status = <<"overdue_", "1", "1">>
    /\ ~Privileged(call.task, call.file)
    /\ ~call.answer.ok
    /\ RegisterOfFallback(HumorOf(ret.value.message, call.task)) = "stern"
    /\ RegisterOfPrompt(ret.request.prompt) = "stern"

\* how the prompt of each category other than Overdue opens
FlatOpening ==
    <<"completed">> :> "Write a short funny message (max 15 words) praising "
    @@ <<"due_today">> :> "Write a short funny reminder (max 15 words) telling "
    @@ <<"unassigned">> :> "Write a short funny message (max 15 words) asking who wants to take the task '"
    @@ <<"no_due_date">> :> "Write a short funny message (max 15 words) about "

CeoSentence == " Always be respectful and funny when talking about the CEO/boss."

\* C22: when one of the assignees of an overdue task resolves to the mention
\* of the privileged identity, the prompt and the fallback line are in the
\* respectful, playful register for every number of days, never firmer,
\* serious or stern; for a task of any other category the privileged
\* identity changes nothing: the prompt, the system text and the fallback
\* line are the ones of the category.
C22_PrivilegedAlwaysPlayful ==
    (ComposeReturned /\ Privileged(call.task, call.file)) =>
        /\ ~ret.request.raised
        /\ IsOverdue(call.task.status) =>
               /\ DaysLateOf(call.task.status) >= 1
               /\ RegisterOfPrompt(ret.request.prompt) = "playful"
               /\ Last(ret.request.system) = CeoSentence
               /\ ~call.answer.ok =>
                      RegisterOfFallback(HumorOf(ret.value.message, call.task))
                          = "playful"
        /\ ~IsOverdue(call.task.status) =>
               /\ Head(ret.request.prompt) = FlatOpening[call.task.status]
               /\ RegisterOfPrompt(ret.request.prompt) = "other"
               /\ \A k \in 1..Len(ret.request.system) :
                      ret.request.system[k] # CeoSentence
               /\ ~call.answer.ok =>
                      HumorOf(ret.value.message, call.task)
                          = TemplateFor(call.task.status,
                                        ExpectedBucket[call.task.task_name],
                                        call.task, call.file)

\* a privileged task 12 days late got a playful prompt and a playful fallback
C22_Witness ==
    /\ ComposeReturned
    /\ Privileged(call.task, call.file)
    /\ call.task.status = <<"overdue_", "1", "2">>
    /\ ~call.answer.ok
    /\ RegisterOfPrompt(ret.request.prompt) = "playful"
    /\ Head(HumorOf(ret.value.message, call.task)) = ":rocket: "

---------------------------------------------------------------------------
(* The summary of a run                                                    *)

FailedSources == SelectSeq(responses, LAMBDA r : ~r.ok)

\* the number of source failures a summary records
SourceFailuresIn(s) ==
    IF "source_failures" \in DOMAIN s THEN s.source_failures ELSE 0

\* C23 as stated: the summary of a run reports the source failures besides
\* the send counts; with two sources of which one failed to fetch it records
\* exactly one source failure.
C23_SummaryRecordsSourceFailures ==
    (summary.logged /\ Len(responses) = 2 /\ Len(FailedSources) = 1) =>
        SourceFailuresIn(summary) = 1

\* C23 amended: the summary of a run holds the send counts only: successful
\* sends, failed sends and the number of classified tasks.  A source failure
\* is not recorded in it; with two sources of which one failed to fetch, the
\* total is the number of tasks classified from the surviving source.
C23_SummaryHoldsSendCountsOnly ==
    summary.logged =>
        /\ DOMAIN summary = {"logged", "successful", "failed", "total"}
        /\ summary.successful = successful_messages
        /\ summary.failed = failed_messages
        /\ summary.total = Len(tasks)
        /\ (Len(responses) = 2 /\ Len(FailedSources) = 1) =>
               \E n \in 1..2 :
                   /\ responses[n].ok
                   /\ summary.total =
                          Len(ClassifyAll(responses[n].tasks,
                                          Get(enabled_lists[n], "name", "?"),
                                          Get(enabled_lists[n], "type", "general"),
                                          RunNow))

\* a run over two sources, the second one failing, wrote its summary
C23_Witness ==
    /\ summary.logged
    /\ Len(responses) = 2
    /\ responses[1].ok
    /\ ~responses[2].ok
    /\ summary.total > 0
    /\ summary.successful + summary.failed = summary.total

---------------------------------------------------------------------------
(* The task type of the fallback                                           *)

BucketOrder ==
    <<"bug", "test", "design", "api", "database", "deploy", "docs", "meeting">>

KeywordsOf(bucket) ==
    TaskTypeWords[CHOOSE n \in 1..Len(TaskTypeWords) :
                      TaskTypeWords[n].type = bucket].words

\* the places in BucketOrder of the buckets with a keyword inside the
\* lower-cased name
Matching(task_name) ==
    {n \in 1..Len(BucketOrder) :
         \E word \in KeywordsOf(BucketOrder[n]) : Contains(lower(task_name), word)}

FirstBucket(task_name) ==
    IF Matching(task_name) = {} THEN "general"
    ELSE BucketOrder[CHOOSE n \in Matching(task_name) :
                         \A m \in Matching(task_name) : n <= m]

\* C24: the task type of a fallback is the first bucket, in the order bug,
\* test, design, api, database, deploy, docs, meeting, one of whose keywords
\* is a substring of the lower-cased task name, and general when there is
\* none; the fallback line of a task that is not overdue is the line of its
\* category and that type.  An unassigned "Fix login bug" with the backend
\* down gives ":bug: Who wants to fix this bug?", a newline, then
\* "<id>: Fix login bug".
C24_FirstMatchingBucket ==
    (ComposeReturned /\ ~IsOverdue(call.task.status) /\ ~call.answer.ok) =>
        /\ task_type_of(call.task.task_name) = FirstBucket(call.task.task_name)
        /\ HumorOf(ret.value.message, call.task)
               = TemplateFor(call.task.status, FirstBucket(call.task.task_name),
                             call.task, call.file)
        /\ (call.task.status = <<"unassigned">> /\ call.task.task_name = FixLoginBug) =>
               ret.value.message
                   = <<":bug: Who wants to fix this bug?", "\n">> \o call.task.task_id
                         \o <<": ", "F", "i", "x", " ", "l", "o", "g", "i", "n", " ",
                              "b", "u", "g">>

\* the unassigned "Fix login bug" got its line with the backend down
C24_Witness ==
    /\ ComposeReturned
    /\ call.task.status = <<"unassigned">>
    /\ call.task.task_name = FixLoginBug
    /\ ~call.answer.ok
    /\ Head(ret.value.message) = ":bug: Who wants to fix this bug?"
    /\ Len(ret.value.message) = 3 + Len(call.task.task_id) + Len(FixLoginBug)

---------------------------------------------------------------------------
(* The enabled sources                                                     *)

\* the list configuration was read and the run went on
ListsLoaded ==
    pc \in {"fetching", "compose", "generating", "send", "sleep", "summary", "done"}

\* the lists get_list_config returns for the configuration of this run
ConfiguredLists ==
    IF get_list_config(config_file, env).raised THEN <<>>
    ELSE get_list_config(config_file, env).lists

IsDisabled(config) == "enabled" \in DOMAIN config /\ config["enabled"] = FALSE

Fetched(list_id) == \E j \in 1..Len(events) :
                        events[j].type = "fetch" /\ events[j].arg = list_id

\* C25: only enabled sources are queried.  A list configured with enabled =
\* false is never fetched and contributes no task; a list with no enabled
\* flag counts as enabled and is fetched; when no list is enabled the run
\* ends without any fetch, message or send.
C25_OnlyEnabledSourcesQueried ==
    /\ \A j \in 1..Len(events) :
           events[j].type = "fetch" =>
               \E n \in 1..Len(ConfiguredLists) :
                   /\ ConfiguredLists[n]["id"] = events[j].arg
                   /\ ~IsDisabled(ConfiguredLists[n])
    /\ \A n \in 1..Len(ConfiguredLists) :
           IsDisabled(ConfiguredLists[n]) =>
               /\ ~Fetched(ConfiguredLists[n]["id"])
               /\ \A k \in 1..Len(tasks) :
                      tasks[k].task_id[1] # ConfiguredLists[n]["id"]
    /\ ListsLoaded =>
           \A n \in 1..Len(ConfiguredLists) :
               "enabled" \notin DOMAIN ConfiguredLists[n] =>
                   /\ \E m \in 1..Len(enabled_lists) :
                          enabled_lists[m] = ConfiguredLists[n]
                   /\ pc # "fetching" => Fetched(ConfiguredLists[n]["id"])
    /\ (ListsLoaded /\ \A n \in 1..Len(ConfiguredLists) : IsDisabled(ConfiguredLists[n])) =>
           /\ pc = "done"
           /\ \A j \in 1..Len(events) : events[j].type = "discover"
           /\ tasks = <<>>
           /\ sink = <<>>
           /\ ~summary.logged

\* a finished run over a list without the flag and a disabled list: the
\* first was fetched and gave the tasks, the second was left alone
C25_Witness ==
    /\ pc = "done"
    /\ summary.logged
    /\ ConfiguredLists = <<Sprint1, BugsDisabled>>
    /\ Fetched("L1")
    /\ ~Fetched("L2")
    /\ Len(tasks) > 0

---------------------------------------------------------------------------
(* The end of a run                                                        *)

\* Every step of the run is a call that returns or fails, or a delay that
\* ends: the one thread of run_bot takes its next step whenever it has one.
\* The mapping file has no part in the control flow: one file is tried.
InitLive == Init /\ mapping_file = TeamMappingFile

SpecLive == InitLive /\ [][Next]_vars /\ WF_vars(Next)

\* the run starts on a working day with the required variables set and a
\* list configuration to read
StartsValid ==
    /\ pc = "start"
    /\ weekday < 5
    /\ required_vars \subseteq env
    /\ ~get_list_config(config_file, env).raised

NumberOf(type, arg) ==
    Len(SelectSeq(events, LAMBDA e : e.type = type /\ e.arg = arg))

\* the run is over and every classified task went through the loop once
EndedAfterEachTaskOnce ==
    /\ pc = "done"
    /\ li = Len(enabled_lists)
    /\ \A k \in 1..Len(tasks) :
           /\ NumberOf("generate", k) = 1
           /\ NumberOf("post", k) <= 1
    /\ tasks # <<>> =>
           /\ summary.logged
           /\ successful_messages + failed_messages = Len(tasks)

\* C26: a run started on a working day with a valid configuration always
\* ends: provided every external call and every pacing delay returns or
\* fails, it reaches Done after it has processed each classified task once,
\* whatever sources, generations and posts fail; nothing aborts it midway.
C26_RunEnds == StartsValid ~> EndedAfterEachTaskOnce

\* a run ended although a source, a generation and a post had failed
C26_Witness ==
    /\ EndedAfterEachTaskOnce
    /\ weekday < 5
    /\ \E n \in 1..Len(responses) : ~responses[n].ok
    /\ \E j \in 1..Len(events) : events[j].type = "post" /\ ~events[j].ok
    /\ gen = GenFailed
    /\ Len(tasks) >= 2

---------------------------------------------------------------------------
(* The counters and the send attempts                                      *)

\* the number of tasks the loop is through with
Processed ==
    IF pc \in {"compose", "generating", "send"} THEN i - 1
    ELSE IF pc \in {"sleep", "summary"} THEN i
    ELSE IF pc = "done" THEN Len(tasks)
    ELSE 0

AcknowledgedOk(k) == HasEvent("post", k, TRUE)

\* C27: the send counters are exact.  After each task successful + failed is
\* the number of tasks processed so far, and the total at Done; successful
\* is the number of posts the sink acknowledged with ok; a task whose post
\* came back not ok or raised is counted failed and never successful.
C27_CountersExact ==
    /\ successful_messages + failed_messages = Processed
    /\ successful_messages = Len(Delivered)
    /\ successful_messages = Len(sink)
    /\ successful_messages = Cardinality({k \in 1..Processed : AcknowledgedOk(k)})
    /\ failed_messages = Cardinality({k \in 1..Processed : ~AcknowledgedOk(k)})
    /\ \A k \in 1..Processed :
           HasEvent("post", k, FALSE) => ~AcknowledgedOk(k)
    /\ (pc = "done" /\ tasks # <<>>) =>
           /\ summary.successful = successful_messages
           /\ summary.failed = failed_messages
           /\ summary.successful + summary.failed = summary.total
           /\ summary.total = Len(tasks)

\* a finished run of three tasks or more with acknowledged and refused posts
C27_Witness ==
    /\ pc = "done"
    /\ summary.total >= 3
    /\ summary.successful >= 1
    /\ summary.failed >= 2
    /\ summary.failed = Len(PostEvents) - Len(Delivered)

\* C28: every classified task gets at most one send attempt in a run: a
\* failed post is never tried again, a task whose compose step raised is
\* never posted, and the number of posts never exceeds the number of
\* classified tasks.
C28_AtMostOneAttemptPerTask ==
    /\ \A j \in 1..Len(PostEvents) : PostEvents[j].arg \in 1..Len(tasks)
    /\ \A k \in 1..Len(tasks) :
           /\ NumberOf("post", k) <= 1
           /\ NumberOf("generate", k) <= 1
           /\ NumberOf("post", k) = 1 => NumberOf("generate", k) = 1
           /\ HasEvent("post", k, FALSE) =>
                  /\ k <= Processed \/ (k = i /\ pc = "compose")
                  /\ \A m \in 1..Len(sink) : ~EndsWithTaskLine(sink[m], tasks[k])
    /\ Len(PostEvents) <= Len(tasks)
    /\ Len(PostEvents) <= Processed + 1

\* the post of the first task failed and was not tried again: the run went
\* on to the second task and ended
C28_Witness ==
    /\ pc = "done"
    /\ Len(tasks) >= 2
    /\ HasEvent("post", 1, FALSE)
    /\ NumberOf("post", 1) = 1
    /\ HasEvent("post", 2, TRUE)
    /\ Len(sink) = Len(tasks) - 1

---------------------------------------------------------------------------
(* The update of the list configuration                                    *)

UpdateReturned == call.fn = "update_config_with_discovered_lists" /\ ret.done

IdsOf(lists) == {lists[k]["id"] : k \in 1..Len(lists)}
PairwiseDistinctIds(lists) ==
    \A k, m \in 1..Len(lists) : lists[k]["id"] = lists[m]["id"] => k = m

\* the configured lists remain, in place and untouched, and what follows
\* them are discovered lists whose id was not configured
OnlyAppended(old, new) ==
    /\ Len(new) >= Len(old)
    /\ SubSeq(new, 1, Len(old)) = old
    /\ \A k \in (Len(old) + 1)..Len(new) :
           /\ new[k]["id"] \notin IdsOf(old)
           /\ \E m \in 1..Len(call.discovered_lists) :
                  call.discovered_lists[m] = new[k]

\* C29: the update of the list configuration with discovered lists only
\* appends: the configured lists keep their place and their fields, a
\* discovered list whose id is configured is not added, and configured ids
\* that were pairwise distinct before are pairwise distinct after, for any
\* sequence of discovered lists; the same update once more changes nothing.
C29_UpdateOnlyAppends ==
    UpdateReturned =>
        /\ OnlyAppended(call.file.lists, ret.value.lists)
        /\ PairwiseDistinctIds(call.file.lists) =>
               PairwiseDistinctIds(ret.value.lists)
        /\ ret.again = ret.value

====
